---- MODULE Spec2Model ----
(***************************************************************************)
(* A model of the aimem context store (internal/storage/sqlite.go), the    *)
(* tool handlers of the server (internal/server/server.go), the response   *)
(* limiter (internal/logger/logger.go), the session manager (internal/     *)
(* session/manager.go), the embedding cache, the circuit breaker and the   *)
(* retry helper of the errors package, the performance monitor             *)
(* (internal/performance/monitor.go), the chunker that splits stored       *)
(* content, the triggers that maintain table session_stats, and the loop   *)
(* of HandleRequest that reads requests and writes responses.              *)
(*                                                                         *)
(* Time is counted in whole seconds.  Relevance and similarity are scaled  *)
(* by 100 so that they stay integers.                                      *)
(***************************************************************************)
EXTENDS Integers, Sequences, FiniteSets, TLC

VARIABLES
    now,        \* the wall clock (time.Now() and CURRENT_TIMESTAMP)
    ttlDefault, \* config.Memory.TTLDefault, in seconds
    chunkSize,  \* config.Memory.ChunkSize, in bytes
    rpc,        \* HandleRequest: the input, the responses written, its position
    issued,     \* the number of ids uuid.New() has given out
    limiter,    \* the types.ResponseConfig of the ResponseLimiter
    sessions,   \* the ids of the rows of table sessions
    chunks,     \* the rows of table context_chunks
    sessionStats, \* the rows of table session_stats (session_id, chunk_count)
    putLog,     \* history: chunk id -> the chunk of the last successful StoreChunk
    last,       \* the last operation and what it returned
    projects,     \* the ids of the rows of table projects
    sessionRows,  \* the rows of table sessions
    sessionCache, \* SessionManager.sessionCache: session id -> session
    calls,        \* the calls of the session manager under way, by caller
    returned,     \* history: working directory -> the session last returned for it
    cache,        \* EmbeddingCache.cache: key -> embedding
    lruOrder,     \* EmbeddingCache.lruOrder: the keys, the last used first
    mu,           \* EmbeddingCache.mu: its holder, or "free"
    workers,      \* the calls of the embedding cache under way, by caller
    breaker,      \* a CircuitBreaker
    streak,       \* history: the executions that failed since the last success
    retry,        \* a call of Retry: its position, attempt and what fn returned
    ctxDone,      \* the context of the Retry call is cancelled
    monitor,      \* PerformanceMonitor: its counters and per-operation metrics
    monMu,        \* PerformanceMonitor.mu: its holder, or "free"
    reqs,         \* the requests under way, by caller
    breakerCalls, \* the calls of the circuit breaker under way, by caller
    accessLog,    \* history: the keys of the embedding cache in the order of
                  \* their latest access
    finished      \* history: the StartRequest/EndRequest pairs made, and their errors

\* The state of the session manager
managerVars == <<projects, sessionRows, sessionCache, calls, returned>>

\* The state of the embedding cache and of the circuit breaker
cacheVars == <<cache, lruOrder, mu, workers, accessLog>>
breakerVars == <<breaker, streak, breakerCalls>>

\* The state of a call of Retry
retryVars == <<retry, ctxDone>>

\* The state of the performance monitor
monitorVars == <<monitor, monMu, reqs, finished>>

\* The state of the components beside the chunk store, the server tools and
\* the response limiter
components == <<managerVars, cacheVars, breakerVars, retryVars, monitorVars>>

vars == <<now, ttlDefault, chunkSize, rpc, issued, limiter, sessions, chunks, sessionStats,
          putLog, last,
          components>>

\* config.Memory.ChunkSize
ChunkSize == 2048

\* HandleRequest before it is called, with nothing to read
NoRequests == [input |-> <<>>, pos |-> 1, out |-> <<>>, state |-> "idle"]

\* The callers of the session manager, none of them in a call
Callers == {"a1", "a2"}
NoCall == [pc |-> "idle"]

\* The operations requests are tracked for
Operations == {"store_context", "retrieve_context"}

\* NewPerformanceMonitor: counters at zero; an operation without an entry
\* in operationMetrics reads as zero.
NewPerformanceMonitor ==
    [requestCount |-> 0, errorCount |-> 0, sessionRequests |-> 0,
     operationMetrics |->
         [o \in Operations |-> [TotalRequests |-> 0, TotalErrors |-> 0]]]

\* No call of Retry is under way.
NoRetry == [pc |-> "idle"]

\* NewCircuitBreaker(maxFailures, resetTimeout)
NewCircuitBreaker(maxFailures, resetTimeout) ==
    [maxFailures |-> maxFailures, resetTimeout |-> resetTimeout,
     failures |-> 0, lastFailTime |-> 0, state |-> "closed"]

\* The components as they are made
ComponentsInit ==
    /\ projects = {}
    /\ sessionRows = {}
    /\ sessionCache = {}
    /\ calls = [c \in Callers |-> NoCall]
    /\ returned = {}
    /\ cache = << >>
    /\ lruOrder = << >>
    /\ accessLog = << >>
    /\ mu = "free"
    /\ workers = [c \in Callers |-> NoCall]
    /\ breaker = NewCircuitBreaker(1, 1)
    /\ streak = 0
    /\ breakerCalls = [c \in Callers |-> NoCall]
    /\ retry = NoRetry
    /\ ctxDone = FALSE
    /\ monitor = NewPerformanceMonitor
    /\ monMu = "free"
    /\ reqs = [c \in Callers |-> NoCall]
    /\ finished = [n |-> 0, errors |-> 0]

\* The clock stops at MaxTime.
MaxTime == 2

ChunkIDs == {"c1", "c2", "c3"}
\* The ids the callers of the storage layer use
StoreIDs == {"c1", "c2"}
SessionIDs == {"s1", "s2"}

(***************************************************************************)
(* Values                                                                  *)
(***************************************************************************)

\* A text is one sentence of words, known by its length in bytes, the code
\* indicators it contains and the distance between its spaces (0: none).
TextA == [len |-> 42, code |-> {}, gap |-> 8]
TextB == [len |-> 6000, code |-> {"("}, gap |-> 0]
TextC == [len |-> 2047, code |-> {}, gap |-> 10]
TextL == [len |-> 43000, code |-> {"("}, gap |-> 10]
NoText == [len |-> 0, code |-> {}, gap |-> 0]

\* []float32: nil, or a slice of components; "NaN" stands for a value
\* encoding/json cannot encode.
NilEmbedding == [isNil |-> TRUE, finite |-> TRUE, v |-> <<>>]
Vec(v) == [isNil |-> FALSE, finite |-> TRUE, v |-> v]
EmbX == Vec(<<1, 0>>)
EmbY == Vec(<<3, 4>>)
EmbNaN == [isNil |-> FALSE, finite |-> FALSE, v |-> <<0, 0>>]

\* sql.NullTime
NullTime == [Valid |-> FALSE, Time |-> 0]
TimeAt(t) == [Valid |-> TRUE, Time |-> t]

\* A BLOB column: NULL or the bytes written
NullBlob == [null |-> TRUE, json |-> <<>>]

\* if chunk.Embedding != nil { json.Marshal(chunk.Embedding) }: NULL for
\* nil, else the array as JSON text, an error for NaN
MarshalEmbedding(e) ==
    IF e.isNil THEN [err |-> FALSE, data |-> NullBlob]
    ELSE IF ~e.finite THEN [err |-> TRUE, data |-> NullBlob]
    ELSE [err |-> FALSE, data |-> [null |-> FALSE, json |-> e.v]]

\* len(embeddingData) > 0 and json.Unmarshal(embeddingData, &chunk.Embedding)
UnmarshalEmbedding(b) ==
    IF b.null THEN NilEmbedding ELSE Vec(b.json)

(***************************************************************************)
(* Table context_chunks                                                    *)
(***************************************************************************)

\* The row StoreChunk binds to its INSERT for chunk c with the embedding
\* serialized as data.
ChunkRow(c, data) ==
    [id |-> c.ID, session_id |-> c.SessionID, content |-> c.Content,
     summary |-> c.Summary, embedding |-> data, relevance |-> c.Relevance,
     importance |-> c.Importance, created_at |-> c.Timestamp,
     updated_at |-> now,
     ttl |-> IF c.TTL > 0 THEN TimeAt(now + c.TTL) ELSE NullTime]

\* The foreign key left unenforced
ForeignKeyOff(row) == TRUE

\* FOREIGN KEY (session_id) REFERENCES sessions(id), with _foreign_keys=ON
ForeignKeyOK(row) == row.session_id \in sessions

\* A plain INSERT into a table that lets two rows share an id
InsertOnly(table, row) == table \cup {row}

\* INSERT OR REPLACE: the rows in conflict on the primary key go, the new
\* row comes.
InsertOrReplace(table, row) ==
    {r \in table : r.id # row.id} \cup {row}

\* SELECT COUNT(*) FROM context_chunks WHERE session_id = ?
CountOf(table, s) == Cardinality({r \in table : r.session_id = s})

\* The rows of session_stats over a table the triggers have followed since
\* it was empty, no row of it replaced.  Of the columns of session_stats the
\* key and chunk_count are kept.
StatsOf(table) ==
    {[session_id |-> s, chunk_count |-> CountOf(table, s)] :
        s \in {r.session_id : r \in table}}

\* Trigger update_session_stats_insert, AFTER INSERT of a row of session s
\* into context_chunks, whose rows are then table: INSERT OR REPLACE INTO
\* session_stats of the count of NEW.session_id.  The row that INSERT OR
\* REPLACE removed from context_chunks fires no delete trigger: the
\* connection leaves recursive_triggers off.
update_session_stats_insert(table, s) ==
    {x \in sessionStats : x.session_id # s}
        \cup {[session_id |-> s, chunk_count |-> CountOf(table, s)]}

\* Trigger update_session_stats_delete, AFTER DELETE of each of the rows
\* that are in before and no longer in after: UPDATE of the row of
\* OLD.session_id, and DELETE of it once the session has no chunk.
update_session_stats_delete(before, after) ==
    LET touched == {r.session_id : r \in before \ after}
    IN  {x \in sessionStats : x.session_id \notin touched}
            \cup {[session_id |-> x.session_id,
                   chunk_count |-> CountOf(after, x.session_id)] :
                      x \in {y \in sessionStats :
                                /\ y.session_id \in touched
                                /\ CountOf(after, y.session_id) > 0}}

\* GetSessionSummary: the row of session_stats, the empty summary on
\* sql.ErrNoRows
SessionSummary(s) ==
    IF \E x \in sessionStats : x.session_id = s
    THEN [SessionID |-> s,
          ChunkCount |-> (CHOOSE x \in sessionStats : x.session_id = s).chunk_count]
    ELSE [SessionID |-> s, ChunkCount |-> 0]

\* The comparison with >= in place of >
NotExpiredInclusive(r) == ~r.ttl.Valid \/ r.ttl.Time >= now

\* (ttl IS NULL OR ttl > CURRENT_TIMESTAMP)
NotExpired(r) == ~r.ttl.Valid \/ r.ttl.Time > now

\* rows.Scan into a types.ContextChunk, as GetChunk and SearchByEmbedding do
ScanRow(r) ==
    [ID |-> r.id, SessionID |-> r.session_id, Content |-> r.content,
     Summary |-> r.summary, Embedding |-> UnmarshalEmbedding(r.embedding),
     Relevance |-> r.relevance, Timestamp |-> r.created_at,
     TTL |-> IF r.ttl.Valid THEN r.ttl.Time - now ELSE 0,
     Importance |-> r.importance]

NotFound == [found |-> FALSE]

\* GetChunk: the chunk of the row with this id that is not expired
GetChunkResult(id) ==
    LET hit == {r \in chunks : r.id = id /\ NotExpired(r)}
    IN  IF hit = {} THEN NotFound
        ELSE [found |-> TRUE, chunk |-> ScanRow(CHOOSE r \in hit : TRUE)]

\* The chunks a caller of StoreChunk passes in: the content, summary,
\* embedding, relevance, importance and TTL (seconds) of a chunk.
Payloads ==
    { [Content |-> TextA, Summary |-> TextA, Embedding |-> EmbX,
       Relevance |-> 90, Importance |-> "high", TTL |-> 0],
      [Content |-> TextB, Summary |-> NoText, Embedding |-> EmbY,
       Relevance |-> 20, Importance |-> "low", TTL |-> 1],
      [Content |-> TextA, Summary |-> NoText, Embedding |-> NilEmbedding,
       Relevance |-> 70, Importance |-> "medium", TTL |-> 2],
      [Content |-> TextB, Summary |-> TextA, Embedding |-> EmbNaN,
       Relevance |-> 50, Importance |-> "low", TTL |-> 0] }

\* types.ContextChunk
Chunk(id, s, p, ts) ==
    [ID |-> id, SessionID |-> s, Content |-> p.Content, Summary |-> p.Summary,
     Embedding |-> p.Embedding, Relevance |-> p.Relevance, Timestamp |-> ts,
     TTL |-> p.TTL, Importance |-> p.Importance]

\* The thresholds CleanupByRelevance is called with
Relevances == {30, 80}

\* The embeddings a query is made with; nil is what retrieveContext and the
\* cleanups pass.
Queries == {NilEmbedding, EmbX}

(***************************************************************************)
(* SearchByEmbedding                                                       *)
(***************************************************************************)

Isqrt(n) == CHOOSE k \in 0..n : k * k <= n /\ (k + 1) * (k + 1) > n

RECURSIVE Dot(_, _, _)
Dot(a, b, i) == IF i = 0 THEN 0 ELSE a[i] * b[i] + Dot(a, b, i - 1)

\* cosineSimilaritySQLite, times 100
cosineSimilaritySQLite(a, b) ==
    IF Len(a.v) # Len(b.v) THEN 0
    ELSE LET normA == Dot(a.v, a.v, Len(a.v))
             normB == Dot(b.v, b.v, Len(b.v))
         IN  IF normA = 0 \/ normB = 0 THEN 0
             ELSE (Dot(a.v, b.v, Len(a.v)) * 100) \div (Isqrt(normA) * Isqrt(normB))

\* The SELECT without its ttl condition
RowsOfSession(s) == {r \in chunks : r.session_id = s}

\* The rows of the SELECT: WHERE session_id = ? AND (ttl IS NULL OR ttl >
\* CURRENT_TIMESTAMP)
VisibleRows(s) == {r \in chunks : r.session_id = s /\ NotExpired(r)}

\* ORDER BY relevance DESC, created_at DESC
RowBefore(r1, r2) ==
    \/ r1.relevance > r2.relevance
    \/ r1.relevance = r2.relevance /\ r1.created_at >= r2.created_at

\* Every order the SELECT may return its rows in: rows equal in relevance
\* and created_at come in any order.
RECURSIVE OrdersOf(_)
OrdersOf(S) ==
    IF S = {} THEN {<< >>}
    ELSE UNION {{<<r>> \o f : f \in OrdersOf(S \ {r})} :
                   r \in {x \in S : \A q \in S : RowBefore(x, q)}}

QueryOrders(s) == OrdersOf(VisibleRows(s))

Swap(r, i, j) == [r EXCEPT ![i] = r[j], ![j] = r[i]]

\* for j := i + 1; j < len(results); j++ { if results[j].similarity >
\* results[i].similarity { swap } }
RECURSIVE SortInner(_, _, _)
SortInner(r, i, j) ==
    IF j > Len(r) THEN r
    ELSE SortInner(IF r[j].similarity > r[i].similarity THEN Swap(r, i, j) ELSE r,
                   i, j + 1)

\* for i := 0; i < len(results)-1; i++
RECURSIVE SortBySimilarity(_, _)
SortBySimilarity(r, i) ==
    IF i >= Len(r) THEN r
    ELSE SortBySimilarity(SortInner(r, i, i + 1), i + 1)

\* if chunk.Embedding == nil { continue }
HasEmbedding(c) == ~c.Embedding.isNil

\* SearchByEmbedding with the limit one too low
SearchResultShort(rows, queryEmbedding, maxResults) ==
    LET candidates == [i \in 1..Len(rows) |-> ScanRow(rows[i])]
        embedded == SelectSeq(candidates, HasEmbedding)
        limit == IF maxResults > Len(embedded) THEN Len(embedded) ELSE maxResults
    IN  [i \in 1..(limit - 1) |-> embedded[i]]

\* SearchByEmbedding over the rows as the SELECT returned them: the chunks
\* with an embedding, by similarity to the query, the first maxResults.
SearchResult(rows, queryEmbedding, maxResults) ==
    LET candidates == [i \in 1..Len(rows) |-> ScanRow(rows[i])]
        embedded == SelectSeq(candidates, HasEmbedding)
        results == [i \in 1..Len(embedded) |->
                       [chunk |-> embedded[i],
                        similarity |->
                            cosineSimilaritySQLite(queryEmbedding, embedded[i].Embedding)]]
        sorted == SortBySimilarity(results, 1)
        limit == IF maxResults > Len(sorted) THEN Len(sorted) ELSE maxResults
    IN  [i \in 1..limit |-> sorted[i].chunk]

(***************************************************************************)
(* The token estimator                                                     *)
(***************************************************************************)

CeilDiv(a, b) == (a + b - 1) \div b

RECURSIVE Pow2Floor(_)
Pow2Floor(n) == IF n < 2 THEN 1 ELSE 2 * Pow2Floor(n \div 2)

\* adjustForContentType, times 10: 1.3 for three code indicators or more,
\* 1.1 for one or two
ContentFactor(text) ==
    IF Cardinality(text.code) >= 3 THEN 13
    ELSE IF Cardinality(text.code) >= 1 THEN 11
    ELSE 10

\* EstimateTokens: ceil(len / CharPerToken * factor) with CharPerToken =
\* 4.0, in float64: the product with 1.1 of a quotient that makes a whole
\* number n is rounded to above n when 8n > 11 * 2^floor(log2 n).
EstimateTokens(text) ==
    LET f == ContentFactor(text)
        n == CeilDiv(text.len * f, 40)
    IN  IF text.len = 0 THEN 0
        ELSE IF f = 11 /\ text.len % 40 = 0 /\ 8 * n > 11 * Pow2Floor(n)
        THEN n + 1
        ELSE n

\* EstimateTokensForResponse of a value that json.Marshal writes as text:
\* int(float64(rawTokens) * 1.2)
EstimateTokensForResponse(json) == (EstimateTokens(json) * 12) \div 10

\* NewResponseLimiter: the default configuration
NewResponseLimiter ==
    [MaxTokens |-> 20000, EnablePaging |-> TRUE, PageSize |-> 10,
     TruncateContent |-> TRUE]

Init ==
    /\ ComponentsInit
    /\ now = 0
    /\ ttlDefault = 0
    /\ chunkSize = ChunkSize
    /\ rpc = NoRequests
    /\ issued = 0
    /\ limiter = NewResponseLimiter
    /\ sessions = {}
    /\ chunks = {}
    /\ sessionStats = {}
    /\ putLog = [id \in ChunkIDs |-> NotFound]
    /\ last = [op |-> "none"]

Tick ==
    /\ now < MaxTime
    /\ now' = now + 1
    /\ last' = [op |-> "Tick"]
    /\ UNCHANGED <<components, ttlDefault, chunkSize, rpc, issued, limiter, sessions, chunks, sessionStats, putLog>>

CreateSession(s) ==
    /\ sessions' = sessions \cup {s}
    /\ last' = [op |-> "CreateSession", session |-> s]
    /\ UNCHANGED <<components, now, ttlDefault, chunkSize, rpc, issued, limiter, chunks, sessionStats, putLog>>

StoreChunk(c) ==
    LET m == MarshalEmbedding(c.Embedding)
        row == ChunkRow(c, m.data)
        ok == ~m.err /\ ForeignKeyOK(row)
    IN  /\ chunks' = IF ok THEN InsertOrReplace(chunks, row) ELSE chunks
        /\ sessionStats' = IF ok
                           THEN update_session_stats_insert(chunks', row.session_id)
                           ELSE sessionStats
        /\ putLog' = IF ok
                      THEN [putLog EXCEPT ![c.ID] =
                               [found |-> TRUE, chunk |-> c, at |-> now,
                                replaced |-> \E r \in chunks : r.id = c.ID]]
                      ELSE putLog
        /\ last' = [op |-> "StoreChunk", id |-> c.ID, session |-> c.SessionID,
                    ok |-> ok]
        /\ UNCHANGED <<components, now, ttlDefault, chunkSize, rpc, issued, limiter, sessions>>

\* The history once the rows with the ids in gone are deleted
Forget(gone) == [id \in ChunkIDs |-> IF id \in gone THEN NotFound ELSE putLog[id]]

IdsOf(rows) == {r.id : r \in rows}

IdsIn(out) == {out[i].ID : i \in 1..Len(out)}

\* DELETE FROM context_chunks WHERE id = ?
DeleteRows(table, id) == {r \in table : r.id # id}

DeleteChunk(id, dbError) ==
    /\ chunks' = IF dbError THEN chunks ELSE DeleteRows(chunks, id)
    /\ sessionStats' = update_session_stats_delete(chunks, chunks')
    /\ putLog' = IF dbError THEN putLog ELSE Forget({id})
    /\ last' = [op |-> "DeleteChunk", id |-> id, ok |-> ~dbError]
    /\ UNCHANGED <<components, now, ttlDefault, chunkSize, rpc, issued, limiter, sessions>>

\* WHERE session_id = ? AND ttl IS NOT NULL AND ttl <= CURRENT_TIMESTAMP
ExpiredRows(s) ==
    {r \in chunks : r.session_id = s /\ r.ttl.Valid /\ r.ttl.Time <= now}

CleanupByTTL(s) ==
    /\ chunks' = chunks \ ExpiredRows(s)
    /\ sessionStats' = update_session_stats_delete(chunks, chunks')
    /\ putLog' = Forget(IdsOf(ExpiredRows(s)))
    /\ last' = [op |-> "CleanupByTTL", session |-> s,
                affected |-> Cardinality(ExpiredRows(s))]
    /\ UNCHANGED <<components, now, ttlDefault, chunkSize, rpc, issued, limiter, sessions>>

\* SELECT id FROM context_chunks WHERE session_id = ? ORDER BY updated_at
\* DESC LIMIT ?: every set of rows the subquery may keep
KeptByLRU(s, keepCount) ==
    LET S == {r \in chunks : r.session_id = s}
        k == IF keepCount > Cardinality(S) THEN Cardinality(S) ELSE keepCount
    IN  {K \in SUBSET S :
            /\ Cardinality(K) = k
            /\ \A r1 \in K, r2 \in S \ K : r1.updated_at >= r2.updated_at}

CleanupByLRU(s, keepCount) ==
    \E K \in KeptByLRU(s, keepCount) :
        LET gone == {r \in chunks : r.session_id = s /\ r \notin K}
        IN  /\ chunks' = chunks \ gone
            /\ sessionStats' = update_session_stats_delete(chunks, chunks')
            /\ putLog' = Forget(IdsOf(gone))
            /\ last' = [op |-> "CleanupByLRU", session |-> s,
                        affected |-> Cardinality(gone)]
            /\ UNCHANGED <<components, now, ttlDefault, chunkSize, rpc, issued, limiter, sessions>>

\* WHERE session_id = ? AND relevance < ?
CleanupByRelevance(s, minRelevance) ==
    LET gone == {r \in chunks : r.session_id = s /\ r.relevance < minRelevance}
    IN  /\ chunks' = chunks \ gone
        /\ sessionStats' = update_session_stats_delete(chunks, chunks')
        /\ putLog' = Forget(IdsOf(gone))
        /\ last' = [op |-> "CleanupByRelevance", session |-> s,
                    affected |-> Cardinality(gone)]
        /\ UNCHANGED <<components, now, ttlDefault, chunkSize, rpc, issued, limiter, sessions>>

\* DELETE FROM context_chunks WHERE session_id = ?
CleanupSession(s) ==
    LET gone == {r \in chunks : r.session_id = s}
    IN  /\ chunks' = chunks \ gone
        /\ sessionStats' = update_session_stats_delete(chunks, chunks')
        /\ putLog' = Forget(IdsOf(gone))
        /\ last' = [op |-> "CleanupSession", session |-> s]
        /\ UNCHANGED <<components, now, ttlDefault, chunkSize, rpc, issued, limiter, sessions>>

GetChunk(id) ==
    /\ last' = [op |-> "GetChunk", id |-> id, out |-> GetChunkResult(id)]
    /\ UNCHANGED <<components, now, ttlDefault, chunkSize, rpc, issued, limiter, sessions, chunks, sessionStats, putLog>>

GetSessionSummary(s) ==
    /\ last' = [op |-> "GetSessionSummary", session |-> s,
                out |-> SessionSummary(s)]
    /\ UNCHANGED <<components, now, ttlDefault, chunkSize, rpc, issued, limiter, sessions, chunks,
                   sessionStats, putLog>>

SearchByEmbedding(s, q, maxResults) ==
    /\ \E rows \in QueryOrders(s) :
          last' = [op |-> "SearchByEmbedding", session |-> s, query |-> q,
                   maxResults |-> maxResults,
                   out |-> SearchResult(rows, q, maxResults)]
    /\ UNCHANGED <<components, now, ttlDefault, chunkSize, rpc, issued, limiter, sessions, chunks, sessionStats, putLog>>

Next ==
    \/ Tick
    \/ \E s \in SessionIDs : CreateSession(s)
    \/ \E id \in StoreIDs, s \in SessionIDs, p \in Payloads :
          StoreChunk(Chunk(id, s, p, now))
    \/ \E id \in StoreIDs, e \in BOOLEAN : DeleteChunk(id, e)
    \/ \E id \in StoreIDs : GetChunk(id)
    \/ \E s \in SessionIDs : GetSessionSummary(s)
    \/ \E s \in SessionIDs, q \in Queries, m \in 1..Cardinality(StoreIDs) :
          SearchByEmbedding(s, q, m)
    \/ \E s \in SessionIDs : CleanupByTTL(s)
    \/ \E s \in SessionIDs, k \in 0..1 : CleanupByLRU(s, k)
    \/ \E s \in SessionIDs, m \in Relevances : CleanupByRelevance(s, m)
    \/ \E s \in SessionIDs : CleanupSession(s)

Spec == Init /\ [][Next]_vars

\* C35: after any sequence of puts (re-puts of an id included, under the same
\* or another session), deletes and evictions, the chunk_count of the summary
\* of a session is the number of chunk rows of that session, 0 for a session
\* without chunks.
C35_CountIsRows ==
    last.op = "GetSessionSummary"
        => last.out.ChunkCount = CountOf(chunks, last.session)

(***************************************************************************)
(* The chunker                                                             *)
(*                                                                         *)
(* A text given byte by byte is a sequence of one-byte strings.  Of a       *)
(* ChunkInfo the Content is kept.                                          *)
(***************************************************************************)

\* unicode.IsSpace and \s; the class [.!?]; the class \w
Spaces == {" ", "\n"}
Stops == {".", "!", "?"}
WordBytes == {"a", "d", "e", "f"}

\* The last index j from i - 1 on with s[i..j] all of the class
RECURSIVE RunEnd(_, _, _)
RunEnd(s, i, class) ==
    IF i <= Len(s) /\ s[i] \in class THEN RunEnd(s, i + 1, class) ELSE i - 1

\* The first index j up to i + 1 with s[j..i] all of the class
RECURSIVE RunStart(_, _, _)
RunStart(s, i, class) ==
    IF i >= 1 /\ s[i] \in class THEN RunStart(s, i - 1, class) ELSE i + 1

\* strings.TrimSpace
TrimSpace(s) == SubSeq(s, RunEnd(s, 1, Spaces) + 1, RunStart(s, Len(s), Spaces) - 1)

\* strings.HasPrefix, strings.HasSuffix
HasPrefix(s, prefix) ==
    Len(s) >= Len(prefix) /\ SubSeq(s, 1, Len(prefix)) = prefix
HasSuffix(s, suffix) ==
    Len(s) >= Len(suffix) /\ SubSeq(s, Len(s) - Len(suffix) + 1, Len(s)) = suffix

\* strings.Contains
Contains(s, sub) ==
    \E i \in 1..(Len(s) - Len(sub) + 1) : SubSeq(s, i, i + Len(sub) - 1) = sub

\* splitIntoSentences: the text cut after each match of [.!?]+\s+, the
\* matches taken from the left; the last piece is what follows the last
\* match, empty if the text ends with one.
RECURSIVE SentencesFrom(_, _, _)
SentencesFrom(text, start, i) ==
    IF i > Len(text) THEN <<SubSeq(text, start, Len(text))>>
    ELSE IF text[i] \in Stops
    THEN LET j == RunEnd(text, i, Stops)
             k == RunEnd(text, j + 1, Spaces)
         IN  IF k > j
             THEN <<SubSeq(text, start, k)>> \o SentencesFrom(text, k + 1, k + 1)
             ELSE SentencesFrom(text, start, j + 1)
    ELSE SentencesFrom(text, start, i + 1)

splitIntoSentences(text) == SentencesFrom(text, 1, 1)

\* getOverlap
getOverlap(chunk, overlapSize) ==
    IF overlapSize <= 0 \/ Len(chunk) <= overlapSize THEN <<>>
    ELSE LET sentences == splitIntoSentences(chunk)
             lastSentence == sentences[Len(sentences)]
         IN  IF Len(sentences) > 1 /\ Len(lastSentence) <= overlapSize
             THEN lastSentence
             ELSE SubSeq(chunk, Len(chunk) - overlapSize + 1, Len(chunk))

\* The loop of chunkText from sentence i on, currentChunk being cur
RECURSIVE TextLoop(_, _, _, _, _)
TextLoop(sentences, i, cur, maxSize, overlapSize) ==
    IF i > Len(sentences)
    THEN IF TrimSpace(cur) # <<>> THEN <<TrimSpace(cur)>> ELSE <<>>
    ELSE IF Len(cur) + Len(sentences[i]) > maxSize /\ cur # <<>>
    THEN <<TrimSpace(cur)>>
             \o TextLoop(sentences, i + 1,
                         getOverlap(cur, overlapSize) \o sentences[i],
                         maxSize, overlapSize)
    ELSE TextLoop(sentences, i + 1, cur \o sentences[i], maxSize, overlapSize)

chunkText(content, maxSize, overlapSize) ==
    IF Len(content) <= maxSize THEN <<content>>
    ELSE TextLoop(splitIntoSentences(content), 1, <<>>, maxSize, overlapSize)

\* strings.Split(s, "\n")
RECURSIVE LinesFrom(_, _, _)
LinesFrom(s, start, i) ==
    IF i > Len(s) THEN <<SubSeq(s, start, Len(s))>>
    ELSE IF s[i] = "\n"
    THEN <<SubSeq(s, start, i - 1)>> \o LinesFrom(s, i + 1, i + 1)
    ELSE LinesFrom(s, start, i + 1)

SplitLines(s) == LinesFrom(s, 1, 1)

\* The bytes of the first n lines, a newline counted after each
RECURSIVE OffsetAfter(_, _)
OffsetAfter(lines, n) ==
    IF n = 0 THEN 0 ELSE Len(lines[n]) + 1 + OffsetAfter(lines, n - 1)

\* findCodeBreakPoint: the offset after the last line that is blank or a
\* closing brace.  The piece after a final newline is such a line, and the
\* offset after it is one more than the length of the code.
findCodeBreakPoint(code) ==
    LET lines == SplitLines(code)
        breaks == {i \in 1..Len(lines) : TrimSpace(lines[i]) \in {<<"}">>, <<>>}}
    IN  IF breaks = {} THEN Len(code)
        ELSE OffsetAfter(lines, CHOOSE i \in breaks : \A j \in breaks : j <= i)

\* The loop of getCodeOverlap from line i down: the lines are written last
\* line first
RECURSIVE CodeOverlapFrom(_, _, _, _)
CodeOverlapFrom(lines, i, overlap, overlapSize) ==
    IF i = 0 THEN overlap
    ELSE IF Len(overlap) + Len(lines[i]) + 1 > overlapSize THEN overlap
    ELSE CodeOverlapFrom(lines, i - 1, overlap \o lines[i] \o <<"\n">>,
                         overlapSize)

getCodeOverlap(chunk, overlapSize) ==
    IF overlapSize <= 0 THEN <<>>
    ELSE IF Len(SplitLines(chunk)) < 2 THEN getOverlap(chunk, overlapSize)
    ELSE CodeOverlapFrom(SplitLines(chunk), Len(SplitLines(chunk)), <<>>,
                         overlapSize)

\* The result of a chunking: the chunks, or a run-time panic
Chunked(cs) == [panic |-> FALSE, chunks |-> cs]
ChunkPanic == [panic |-> TRUE, chunks |-> <<>>]

\* The loop of chunkCode from line i on.  currentChunk[:breakPoint] panics
\* for a breakPoint beyond the chunk.
RECURSIVE CodeLoop(_, _, _, _, _)
CodeLoop(lines, i, cur, maxSize, overlapSize) ==
    IF i > Len(lines)
    THEN Chunked(IF TrimSpace(cur) # <<>> THEN <<cur>> ELSE <<>>)
    ELSE LET lineWithNewline ==
                 IF i < Len(lines) THEN lines[i] \o <<"\n">> ELSE lines[i]
         IN  IF Len(cur) + Len(lineWithNewline) > maxSize /\ cur # <<>>
             THEN LET breakPoint == findCodeBreakPoint(cur)
                      head == SubSeq(cur, 1, breakPoint)
                      remaining == SubSeq(cur, breakPoint + 1, Len(cur))
                      rest == CodeLoop(lines, i + 1,
                                       getCodeOverlap(head, overlapSize)
                                           \o remaining \o lineWithNewline,
                                       maxSize, overlapSize)
                  IN  IF breakPoint > Len(cur) \/ rest.panic THEN ChunkPanic
                      ELSE Chunked(<<head>> \o rest.chunks)
             ELSE CodeLoop(lines, i + 1, cur \o lineWithNewline, maxSize,
                           overlapSize)

chunkCode(content, maxSize, overlapSize) ==
    IF Len(content) <= maxSize THEN Chunked(<<content>>)
    ELSE CodeLoop(SplitLines(content), 1, <<>>, maxSize, overlapSize)

\* splitMarkdownSections: a line that starts with "# " once trimmed opens a
\* section; every line is written with a newline after it.
RECURSIVE SectionsFrom(_, _, _)
SectionsFrom(lines, i, current) ==
    IF i > Len(lines) THEN (IF current # <<>> THEN <<current>> ELSE <<>>)
    ELSE IF HasPrefix(TrimSpace(lines[i]), <<"#", " ">>) /\ current # <<>>
    THEN <<current>> \o SectionsFrom(lines, i + 1, lines[i] \o <<"\n">>)
    ELSE SectionsFrom(lines, i + 1, current \o lines[i] \o <<"\n">>)

splitMarkdownSections(content) == SectionsFrom(SplitLines(content), 1, <<>>)

\* The loop of chunkMarkdown from section i on
RECURSIVE MarkdownLoop(_, _, _, _)
MarkdownLoop(sections, i, maxSize, overlapSize) ==
    IF i > Len(sections) THEN <<>>
    ELSE (IF Len(sections[i]) <= maxSize THEN <<sections[i]>>
          ELSE chunkText(sections[i], maxSize, overlapSize))
             \o MarkdownLoop(sections, i + 1, maxSize, overlapSize)

chunkMarkdown(content, maxSize, overlapSize) ==
    IF Len(content) <= maxSize THEN <<content>>
    ELSE MarkdownLoop(splitMarkdownSections(content), 1, maxSize, overlapSize)

chunkJSON(content, maxSize, overlapSize) ==
    IF Len(content) <= maxSize THEN <<content>>
    ELSE chunkText(content, maxSize, overlapSize)

\* detectContentType.  Of the code patterns def\s+\w+ can match the bytes of
\* the texts of the model, of the markdown marks "# ", and no text of the
\* model opens with "<".
detectContentType(content) ==
    LET c == TrimSpace(content)
    IN  IF \E i \in 1..Len(c) :
               /\ i + 2 <= Len(c)
               /\ SubSeq(c, i, i + 2) = <<"d", "e", "f">>
               /\ RunEnd(c, i + 3, Spaces) >= i + 3
               /\ RunEnd(c, i + 3, Spaces) < Len(c)
               /\ c[RunEnd(c, i + 3, Spaces) + 1] \in WordBytes
        THEN "code"
        ELSE IF Contains(c, <<"#", " ">>) THEN "markdown"
        ELSE IF \/ HasPrefix(c, <<"{">>) /\ HasSuffix(c, <<"}">>)
                \/ HasPrefix(c, <<"[">>) /\ HasSuffix(c, <<"]">>)
        THEN "json"
        ELSE "text"

\* ChunkContentWithInfo: the chunking by content type
ChunkAs(contentType, content, maxSize, overlapSize) ==
    CASE contentType = "code" -> chunkCode(content, maxSize, overlapSize)
      [] contentType = "markdown" ->
             Chunked(chunkMarkdown(content, maxSize, overlapSize))
      [] contentType = "json" ->
             Chunked(chunkJSON(content, maxSize, overlapSize))
      [] OTHER -> Chunked(chunkText(content, maxSize, overlapSize))

ChunkContentWithInfo(content, maxSize, overlapSize) ==
    IF content = <<>> THEN Chunked(<<>>)
    ELSE ChunkAs(detectContentType(content), content, maxSize, overlapSize)

\* The texts that are chunked: a body of at most MaxTextLen bytes, as it is,
\* after a line of code, after a heading mark, or in braces
MaxTextLen == 5
BodyBytes == {"a", ".", " ", "\n"}
Bodies == UNION {[1..n -> BodyBytes] : n \in 0..MaxTextLen}
ChunkTexts ==
    Bodies \cup {<<"d", "e", "f", " ", "a", "\n">> \o b : b \in Bodies}
           \cup {<<"#", " ">> \o b : b \in Bodies}
           \cup {<<"{">> \o b \o <<"}">> : b \in Bodies}

\* The values of maxSize and of config.OverlapSize
MaxSizes == {3, 8}
OverlapSizes == {0, 2}

InitChunk ==
    /\ ComponentsInit
    /\ now = 0
    /\ ttlDefault = 0
    /\ chunkSize = ChunkSize
    /\ rpc = NoRequests
    /\ issued = 0
    /\ limiter = NewResponseLimiter
    /\ sessions = {}
    /\ chunks = {}
    /\ sessionStats = {}
    /\ putLog = [id \in ChunkIDs |-> NotFound]
    /\ \E content \in ChunkTexts, maxSize \in MaxSizes, overlapSize \in OverlapSizes :
          last = [op |-> "text", content |-> content, maxSize |-> maxSize,
                  overlapSize |-> overlapSize]

\* ChunkContentWithInfo called with the text, with the maxSize and under the
\* configured overlap
ChunkText ==
    /\ last.op = "text"
    /\ last' = [op |-> "ChunkContentWithInfo", content |-> last.content,
                maxSize |-> last.maxSize, overlapSize |-> last.overlapSize,
                out |-> ChunkContentWithInfo(last.content, last.maxSize,
                                             last.overlapSize)]
    /\ UNCHANGED <<components, now, ttlDefault, chunkSize, rpc, issued, limiter,
                   sessions, chunks, sessionStats, putLog>>

SpecChunk == InitChunk /\ [][ChunkText]_vars

\* C36: every chunk the chunker emits has at most max_size bytes, for every
\* text, content type and overlap.
C36_ChunksFit ==
    last.op = "ChunkContentWithInfo"
        => \A i \in 1..Len(last.out.chunks) :
               Len(last.out.chunks[i]) <= last.maxSize

(***************************************************************************)
(* The server: store_context                                               *)
(***************************************************************************)


\* The values of config.Memory.TTLDefault, in seconds
TTLDefaults == {1, 3}

\* The limit the handlers pass to SearchByEmbedding to read a whole session
MaxResultsAll == 1000

\* What store_context is called with: non-empty texts of at most ChunkSize
\* bytes, and an importance.
StoreRequests ==
    { [content |-> TextC, importance |-> "low"],
      [content |-> TextA, importance |-> "high"],
      [content |-> TextC, importance |-> "medium"] }

\* uuid.New(): an id it has not given before
IDOrder == <<"c1", "c2", "c3">>
NewUUID == IDOrder[issued + 1]

\* The text with the bytes b
TextOf(b) == [len |-> Len(b), code |-> {}, gap |-> 0, bytes |-> b]

\* The Content of the chunks of ChunkContentWithInfo, as texts
TextsOf(out) ==
    IF out.panic THEN ChunkPanic
    ELSE Chunked([i \in 1..Len(out.chunks) |-> TextOf(out.chunks[i])])

\* ChunkContent under the configuration of the server, whose OverlapSize is
\* a tenth of config.Memory.ChunkSize: no chunk for the empty text; the
\* chunks of a text given byte by byte; a text given by its length alone has
\* at most maxSize bytes and is its one chunk.
ChunkContent(content, maxSize) ==
    IF content.len = 0 THEN Chunked(<<>>)
    ELSE IF "bytes" \in DOMAIN content
    THEN TextsOf(ChunkContentWithInfo(content.bytes, maxSize, chunkSize \div 10))
    ELSE Chunked(<<content>>)

\* The loop of storeContext over the chunks from chunk i on: finalContent
\* and combinedLength
RECURSIVE CombineFrom(_, _, _, _)
CombineFrom(parts, i, final, combinedLength) ==
    IF i > Len(parts) THEN final
    ELSE IF combinedLength + parts[i].len > chunkSize THEN final
    ELSE CombineFrom(parts, i + 1, final \o parts[i].bytes \o <<" ">>,
                     combinedLength + parts[i].len)

\* finalContent of storeContext: the one chunk; of several the leading ones
\* that fit config.Memory.ChunkSize together, a space after each, or the
\* first if it does not fit.  chunks[0] panics when there is no chunk.
FinalOr(combined, parts) ==
    IF combined # <<>> THEN [panic |-> FALSE, content |-> TextOf(combined)]
    ELSE IF Len(parts) = 0 THEN [panic |-> TRUE, content |-> NoText]
    ELSE [panic |-> FALSE, content |-> parts[1]]

FinalContent(parts) ==
    IF Len(parts) = 1 THEN [panic |-> FALSE, content |-> parts[1]]
    ELSE FinalOr(CombineFrom(parts, 1, <<>>, 0), parts)

\* finalContent after a chunking
FinalAfter(out) ==
    IF out.panic THEN [panic |-> TRUE, content |-> NoText]
    ELSE FinalContent(out.chunks)

\* GenerateEmbedding: an error for the empty text, else a vector that the
\* text determines
GenerateEmbedding(text) ==
    IF text.len = 0 THEN [err |-> TRUE, embedding |-> NilEmbedding]
    ELSE [err |-> FALSE, embedding |-> IF text.len < 1000 THEN EmbX ELSE EmbY]

\* SummarizeContent: a text that fits is its own summary; of a longer text
\* the sentences that fit are kept, and its one sentence does not.
SummarizeContent(content, maxLength) ==
    IF content.len = 0 THEN NoText
    ELSE IF content.len <= maxLength THEN content
    ELSE NoText

calculateInitialRelevance(importance) ==
    CASE importance = "high" -> 90
      [] importance = "medium" -> 70
      [] importance = "low" -> 50
      [] OTHER -> 50

\* storeContext: chunk, embed, summarize and store under a new id.  A panic
\* ends the process: nothing is stored and no response is written.
storeContext(sessionID, content, importance) ==
    /\ issued < Len(IDOrder)
    /\ issued' = issued + 1
    /\ \E final \in {FinalAfter(ChunkContent(content, chunkSize))} :
       LET finalContent == final.content
           e == GenerateEmbedding(finalContent)
           c == [ID |-> NewUUID, SessionID |-> sessionID,
                 Content |-> finalContent,
                 Summary |-> SummarizeContent(finalContent, chunkSize \div 3),
                 Embedding |-> e.embedding,
                 Relevance |-> calculateInitialRelevance(importance),
                 Timestamp |-> now, TTL |-> ttlDefault,
                 Importance |-> importance]
           m == MarshalEmbedding(c.Embedding)
           row == ChunkRow(c, m.data)
           ok == ~final.panic /\ ~e.err /\ ~m.err /\ ForeignKeyOK(row)
       IN  /\ chunks' = IF ok THEN InsertOrReplace(chunks, row) ELSE chunks
           /\ sessionStats' = IF ok
                              THEN update_session_stats_insert(chunks', row.session_id)
                              ELSE sessionStats
           /\ putLog' = IF ok
                         THEN [putLog EXCEPT ![c.ID] =
                                  [found |-> TRUE, chunk |-> c, at |-> now,
                                   replaced |-> FALSE]]
                         ELSE putLog
           /\ last' = [op |-> "storeContext", id |-> c.ID,
                       session |-> sessionID, ok |-> ok,
                       content |-> content, panic |-> final.panic]
           /\ UNCHANGED <<components, now, ttlDefault, chunkSize, limiter, sessions>>

\* The values of config.Memory.ChunkSize under which texts given byte by
\* byte are stored
StoreChunkSizes == {3, 8}

\* A session and a call of store_context with a text given byte by byte
InitStoreText ==
    /\ ComponentsInit
    /\ now = 0
    /\ ttlDefault = 0
    /\ chunkSize \in StoreChunkSizes
    /\ rpc = NoRequests
    /\ issued = 0
    /\ limiter = NewResponseLimiter
    /\ sessions = {"s1"}
    /\ chunks = {}
    /\ sessionStats = {}
    /\ putLog = [id \in ChunkIDs |-> NotFound]
    /\ \E b \in ChunkTexts :
          last = [op |-> "store_context", content |-> TextOf(b)]

StoreText ==
    /\ last.op = "store_context"
    /\ storeContext("s1", last.content, "medium")
    /\ UNCHANGED rpc

SpecStoreText == InitStoreText /\ [][StoreText]_vars

\* C37: after a successful store_context every chunk the chunker emits for
\* the content is contained in a chunk stored for the session.
C37_AllContentStored ==
    (last.op = "storeContext" /\ last.ok)
        => LET parts == ChunkContent(last.content, chunkSize).chunks
           IN  \A i \in 1..Len(parts) :
                   \E r \in chunks :
                       /\ r.session_id = last.session
                       /\ Contains(r.content.bytes, parts[i].bytes)

(***************************************************************************)
(* The server: cleanup_session                                             *)
(***************************************************************************)

Range(q) == {q[i] : i \in 1..Len(q)}

Prefix(q, n) == [i \in 1..(IF n > Len(q) THEN Len(q) ELSE n) |-> q[i]]

\* sort.Slice(q, less): every arrangement of q in which no element is less
\* than one before it
SortSlice(q, less(_, _)) ==
    LET RECURSIVE Arranged(_)
        Arranged(I) ==
            IF I = {} THEN {<< >>}
            ELSE UNION {{<<q[i]>> \o f : f \in Arranged(I \ {i})} :
                           i \in {m \in I : \A x \in I : ~less(q[x], q[m])}}
    IN  Arranged(DOMAIN q)

\* chunk.TTL > 0 && now.Sub(chunk.Timestamp) > chunk.TTL
AgeExceedsTTL(c) == c.TTL > 0 /\ now - c.Timestamp > c.TTL

\* selectExpiredChunks: the loop appends and then breaks at maxRemove.
selectExpiredChunks(cs, maxRemove) ==
    {Prefix(SelectSeq(cs, AgeExceedsTTL), IF maxRemove < 1 THEN 1 ELSE maxRemove)}

TimestampBefore(c, d) == c.Timestamp < d.Timestamp

selectLRUChunks(cs, maxRemove) ==
    {Prefix(f, maxRemove) : f \in SortSlice(cs, TimestampBefore)}

RelevanceBelow(c, d) == c.Relevance < d.Relevance

selectLowRelevanceChunks(cs, maxRemove) ==
    {Prefix(f, maxRemove) : f \in SortSlice(cs, RelevanceBelow)}

\* A selection without the cap on the number of chunks removed
MaxRemoveAll(cs) == Len(cs)

\* maxRemove := len(chunks) / 2; if maxRemove == 0 { maxRemove = 1 }
MaxRemoveOf(cs) == IF Len(cs) \div 2 = 0 THEN 1 ELSE Len(cs) \div 2

\* selectChunksForRemoval: the selections the strategy may make
selectChunksForRemoval(cs, strategy) ==
    IF Len(cs) = 0 THEN {<<>>}
    ELSE CASE strategy = "ttl" -> selectExpiredChunks(cs, MaxRemoveOf(cs))
           [] strategy = "lru" -> selectLRUChunks(cs, MaxRemoveOf(cs))
           [] strategy = "relevance" -> selectLowRelevanceChunks(cs, MaxRemoveOf(cs))
           [] OTHER -> selectLRUChunks(cs, MaxRemoveOf(cs))

CleanupStrategies == {"ttl", "lru", "relevance"}

RECURSIVE SumLen(_, _)
SumLen(cs, i) == IF i = 0 THEN 0 ELSE cs[i].Content.len + SumLen(cs, i - 1)

\* What a cleanup leaves in last: the call and the result returned
CleanupRecord(op, s, strategy, removed, remaining, freed) ==
    [op |-> op, session |-> s, strategy |-> strategy,
     ChunksRemoved |-> removed, RemainingChunks |-> remaining,
     BytesFreed |-> freed]

\* cleanupSession; DeleteChunk fails for the ids in failing.
cleanupSession(s, strategy) ==
    \E rows \in QueryOrders(s) :
        LET allChunks == SearchResult(rows, NilEmbedding, MaxResultsAll)
        IN  \E toRemove \in selectChunksForRemoval(allChunks, strategy) :
            \E failing \in SUBSET IdsIn(toRemove) :
                LET deleted == IdsIn(toRemove) \ failing
                    removed == Cardinality(deleted)
                IN  /\ chunks' = {r \in chunks : r.id \notin deleted}
                    /\ sessionStats' = update_session_stats_delete(chunks, chunks')
                    /\ putLog' = Forget(deleted)
                    /\ last' = IF Len(allChunks) = 0
                               THEN CleanupRecord("cleanupSession", s, strategy,
                                                  0, 0, 0)
                               ELSE CleanupRecord("cleanupSession", s, strategy,
                                                  removed,
                                                  Len(allChunks) - removed,
                                                  SumLen(toRemove, Len(toRemove)))
                    /\ UNCHANGED <<components, now, ttlDefault, chunkSize, rpc, issued, limiter, sessions>>

(***************************************************************************)
(* The server: smart_memory_manager                                        *)
(***************************************************************************)

SecondsPerHour == 3600

\* getCleanupRatio, in percent
getCleanupRatio(strategy, phase) ==
    CASE strategy = "aggressive" /\ phase = "analysis" -> 30
      [] strategy = "aggressive" /\ phase = "development" -> 20
      [] strategy = "aggressive" /\ phase = "testing" -> 40
      [] strategy = "aggressive" /\ phase = "deployment" -> 10
      [] strategy = "balanced" /\ phase = "analysis" -> 20
      [] strategy = "balanced" /\ phase = "development" -> 10
      [] strategy = "balanced" /\ phase = "testing" -> 25
      [] strategy = "balanced" /\ phase = "deployment" -> 5
      [] strategy = "conservative" /\ phase = "analysis" -> 10
      [] strategy = "conservative" /\ phase = "development" -> 5
      [] strategy = "conservative" /\ phase = "testing" -> 15
      [] strategy = "conservative" /\ phase = "deployment" -> 0
      [] OTHER -> 10

NotHigh(c) == c.Importance # "high"

\* Lower relevance first, then older first
AggressiveLess(c, d) ==
    IF c.Relevance # d.Relevance THEN c.Relevance < d.Relevance
    ELSE c.Timestamp < d.Timestamp

selectAggressiveCleanup(cs, maxRemove, preserveImportant) ==
    LET candidates == IF preserveImportant THEN SelectSeq(cs, NotHigh)
                      ELSE cs
    IN  {Prefix(f, maxRemove) : f \in SortSlice(candidates, AggressiveLess)}

Age(c) == now - c.Timestamp

\* calculateCleanupScore, times 1000 * 24 * SecondsPerHour
calculateCleanupScore(c) ==
    LET day == 24 * SecondsPerHour
        importanceScore == CASE c.Importance = "high" -> 0
                             [] c.Importance = "medium" -> 5
                             [] c.Importance = "low" -> 10
                             [] OTHER -> 0
    IN  (100 - c.Relevance) * 4 * day
        + (IF Age(c) > day THEN day ELSE Age(c)) * 300
        + importanceScore * 30 * day

ScoreBelow(c, d) == calculateCleanupScore(c) < calculateCleanupScore(d)

NotRecentMedium(c) == ~(c.Importance = "medium" /\ Age(c) < SecondsPerHour)

BalancedCandidate(c) == NotHigh(c) /\ NotRecentMedium(c)

selectBalancedCleanup(cs, maxRemove, preserveImportant) ==
    LET candidates == IF preserveImportant THEN SelectSeq(cs, BalancedCandidate)
                      ELSE SelectSeq(cs, NotRecentMedium)
    IN  {Prefix(f, maxRemove) : f \in SortSlice(candidates, ScoreBelow)}

\* chunk.Relevance < 0.3 && chunk.Importance == low && older than 24 hours;
\* with preserveImportant the chunks other than low are skipped before.
ConservativeCandidate(c) ==
    c.Relevance < 30 /\ c.Importance = "low" /\ Age(c) > 24 * SecondsPerHour

selectConservativeCleanup(cs, maxRemove, preserveImportant) ==
    LET candidates == SelectSeq(cs, ConservativeCandidate)
    IN  {Prefix(f, maxRemove) : f \in SortSlice(candidates, TimestampBefore)}

MemoryStrategies == {"aggressive", "balanced", "conservative"}
SessionPhases == {"testing", "deployment"}

\* Every chunk may go
SmartMaxRemoveAll(n, ratio) == n

\* maxRemove := int(float64(len(chunks)) * cleanupRatio), at least 1 of more
\* than 10 chunks
SmartMaxRemove(n, ratio) ==
    IF (n * ratio) \div 100 = 0 /\ n > 10 THEN 1 ELSE (n * ratio) \div 100

\* applySmartMemoryStrategy as handleSmartMemoryManager calls it;
\* DeleteChunk fails for the ids in failing.
smartMemoryManager(s, phase, strategy, preserveImportant) ==
    \E rows \in QueryOrders(s) :
        LET cs == SearchResult(rows, NilEmbedding, MaxResultsAll)
            maxRemove == SmartMaxRemove(Len(cs), getCleanupRatio(strategy, phase))
            selections ==
                CASE strategy = "aggressive" ->
                       selectAggressiveCleanup(cs, maxRemove, preserveImportant)
                  [] strategy = "balanced" ->
                       selectBalancedCleanup(cs, maxRemove, preserveImportant)
                  [] strategy = "conservative" ->
                       selectConservativeCleanup(cs, maxRemove, preserveImportant)
                  [] OTHER -> {<<>>}
        IN  \E chunksToRemove \in selections :
            \E failing \in SUBSET IdsIn(chunksToRemove) :
                LET deleted == IdsIn(chunksToRemove) \ failing
                    freed == SelectSeq(chunksToRemove, LAMBDA c : c.ID \in deleted)
                IN  /\ chunks' = {r \in chunks : r.id \notin deleted}
                    /\ sessionStats' = update_session_stats_delete(chunks, chunks')
                    /\ putLog' = Forget(deleted)
                    /\ last' = CleanupRecord("smartMemoryManager", s, strategy,
                                             Len(chunksToRemove),
                                             Len(cs) - Len(chunksToRemove),
                                             SumLen(freed, Len(freed)))
                                   @@ [phase |-> phase]
                    /\ UNCHANGED <<components, now, ttlDefault, chunkSize, rpc, issued, limiter, sessions>>

(***************************************************************************)
(* The server: context_aware_retrieve                                      *)
(***************************************************************************)

\* A text that fmt.Sprintf writes: its bytes and the code indicators in it
Str(n, code) == [len |-> n, code |-> code, gap |-> 0]

RECURSIVE SumOfLens(_, _)
SumOfLens(parts, i) == IF i = 0 THEN 0 ELSE parts[i].len + SumOfLens(parts, i - 1)

\* F of the value of x, x being evaluated once
With(x, F(_)) == CHOOSE r \in {F(v) : v \in {x}} : TRUE

Concat(a, b) == [len |-> a.len + b.len, code |-> a.code \cup b.code, gap |-> 0]

\* strings.Join(parts[:n], "")
Join(parts, n) ==
    [len |-> SumOfLens(parts, n),
     code |-> UNION {parts[i].code : i \in 1..n}, gap |-> 0]

\* The bytes of %d
RECURSIVE Digits(_)
Digits(n) == IF n < 10 THEN 1 ELSE 1 + Digits(n \div 10)

\* The bytes of uuid.New().String()
UUIDLen == 36
\* The bytes of a float written with %.3f, the value being at most 1
Float3Len == 5
\* The bytes of the formats of the response without their verbs
HeaderFormatLen == 102
PrimaryFormatLen == 31
ChunkFormatLen == 33

\* The task a retrieval is made for, and its type
CurrentTask == [len |-> 12, code |-> {}, gap |-> 4]
TaskTypes == {"testing", "debugging"}
TaskTypeText(taskType) ==
    CASE taskType = "testing" -> Str(7, {})
      [] taskType = "debugging" -> Str(9, {})
      [] OTHER -> Str(0, {})

\* enhanceQueryByTaskType: query + " " + enhancement
enhanceQueryByTaskType(query, taskType) ==
    CASE taskType = "testing" -> Concat(query, Str(53, {}))
      [] taskType = "debugging" -> Concat(query, Str(60, {}))
      [] OTHER -> query

\* The keywords of taskBoosts that strings.Contains finds in a content: the
\* text TextC reads "error" and "fix", the other texts none of the keywords.
KeywordsIn(content) == IF content = TextC THEN {"error", "fix"} ELSE {}

\* taskBoosts, times 10: a map from keyword to boost for three task types
taskBoosts(taskType) ==
    CASE taskType = "analysis" ->
             {<<"architecture", 12>>, <<"structure", 11>>, <<"design", 11>>,
              <<"pattern", 11>>}
      [] taskType = "development" ->
             {<<"function", 12>>, <<"method", 12>>, <<"implementation", 13>>,
              <<"API", 11>>, <<"code", 11>>}
      [] taskType = "debugging" ->
             {<<"error", 13>>, <<"bug", 13>>, <<"issue", 12>>, <<"problem", 12>>,
              <<"fix", 11>>}
      [] OTHER -> {}

\* for keyword, boost := range boosts { if strings.Contains(content, keyword)
\* { baseRelevance *= boost; break } }: a map is ranged over in an order that
\* changes from one loop to the next, so the boost applied is that of any
\* keyword the content holds; 1.0 when it holds none.
TaskBoostChoices(c, taskType) ==
    LET found == {kb \in taskBoosts(taskType) : kb[1] \in KeywordsIn(c.Content)}
    IN  IF found = {} THEN {10} ELSE {kb[2] : kb \in found}

\* The boosts the loop applies to the chunks of found, one for each
RECURSIVE BoostsApplied(_, _)
BoostsApplied(found, taskType) ==
    IF Len(found) = 0 THEN {<<>>}
    ELSE {Append(b, x) :
              b \in BoostsApplied(SubSeq(found, 1, Len(found) - 1), taskType),
              x \in TaskBoostChoices(found[Len(found)], taskType)}

\* calculateTaskAwareRelevance, in 1/1000000, with the task boost the loop
\* applied: the importance boost, the recency boost, capped at 1.0
calculateTaskAwareRelevance(c, taskType, boost) ==
    LET importanceBoost == CASE c.Importance = "high" -> 12
                             [] c.Importance = "medium" -> 10
                             [] c.Importance = "low" -> 8
                             [] OTHER -> 10
        recency == IF Age(c) < SecondsPerHour THEN 110
                   ELSE IF Age(c) < 24 * SecondsPerHour THEN 105 ELSE 100
        r == c.Relevance * boost * importanceBoost * recency
    IN  IF r > 1000000 THEN 1000000 ELSE r

EnhancedAbove(c, d) == c.Enhanced > d.Enhanced

\* "**Chunk %d** (ID: %s, Relevance: %.3f)\n%s\n\n"
ChunkPart(i, c) ==
    Concat(Str(ChunkFormatLen + Digits(i) + UUIDLen + Float3Len, {"(", ")"}),
           c.Content)

\* The text of the response for the primary chunks cs, auto_expand being
\* false
ResponseContent(task, taskType, cs) ==
    LET header == Concat(Str(HeaderFormatLen + 5, {}),
                         Concat(task, TaskTypeText(taskType)))
        primary == Str(PrimaryFormatLen + Digits(Len(cs)), {"(", ")"})
        parts == [i \in 1..Len(cs) |-> ChunkPart(i, cs[i])]
    IN  IF Len(cs) = 0 THEN header
        ELSE Concat(header, Concat(primary, Join(parts, Len(parts))))

\* The arguments of a context_aware_retrieve call beside the session and
\* the task
Retrievals ==
    { [max_chunks |-> 5, max_response_tokens |-> 1000, page |-> 1],
      [max_chunks |-> 2, max_response_tokens |-> 20000, page |-> 2] }

\* handleContextAwareRetrieve with auto_expand false: max_chunks is read,
\* max_response_tokens and page are not.
contextAwareRetrieve(s, task, taskType, args) ==
    LET e == GenerateEmbedding(enhanceQueryByTaskType(task, taskType))
    IN  /\ ~e.err
        /\ \E rows \in QueryOrders(s) :
           \E found \in {SearchResult(rows, e.embedding, args.max_chunks)} :
           \E boosts \in BoostsApplied(found, taskType) :
           \E scored \in {[i \in 1..Len(found) |->
                              [ID |-> found[i].ID, Content |-> found[i].Content,
                               Enhanced |-> calculateTaskAwareRelevance(
                                                found[i], taskType, boosts[i])]]} :
           \E cs \in SortSlice(scored, EnhancedAbove) :
               last' = [op |-> "contextAwareRetrieve",
                        session |-> s, task_type |-> taskType, args |-> args,
                        scan |-> [i \in 1..Len(found) |-> found[i].ID],
                        ids |-> [i \in 1..Len(cs) |-> cs[i].ID],
                        scores |-> [i \in 1..Len(cs) |-> cs[i].Enhanced],
                        estimated |->
                            EstimateTokens(ResponseContent(task, taskType, cs))]
        /\ UNCHANGED <<components, now, ttlDefault, chunkSize, rpc, issued, limiter, sessions, chunks, sessionStats, putLog>>

(***************************************************************************)
(* The server as its tools are called                                      *)
(***************************************************************************)

\* The session the tools are called for
ServerSessions == {"s1"}

\* The task type of the retrievals made between the cleanups
ServerTaskTypes == {"testing"}

InitServer ==
    /\ ComponentsInit
    /\ now = 0
    /\ ttlDefault \in TTLDefaults
    /\ chunkSize = ChunkSize
    /\ rpc = NoRequests
    /\ issued = 0
    /\ limiter = NewResponseLimiter
    /\ sessions = {}
    /\ chunks = {}
    /\ sessionStats = {}
    /\ putLog = [id \in ChunkIDs |-> NotFound]
    /\ last = [op |-> "none"]

NextServer ==
    \/ Tick
    \/ \E s \in ServerSessions : CreateSession(s)
    \/ \E s \in ServerSessions, r \in StoreRequests :
          storeContext(s, r.content, r.importance) /\ UNCHANGED rpc
    \/ \E s \in ServerSessions, strategy \in CleanupStrategies :
          cleanupSession(s, strategy)
    \/ \E s \in ServerSessions, phase \in SessionPhases,
          strategy \in MemoryStrategies, preserve \in BOOLEAN :
          smartMemoryManager(s, phase, strategy, preserve)
    \/ \E s \in ServerSessions, taskType \in ServerTaskTypes, args \in Retrievals :
          contextAwareRetrieve(s, CurrentTask, taskType, args)

SpecServer == InitServer /\ [][NextServer]_vars

(***************************************************************************)
(* The response limiter: JSON sizes                                        *)
(***************************************************************************)

\* A slice: nil, or its items
NilList == [isNil |-> TRUE, items |-> <<>>]
List(q) == [isNil |-> FALSE, items |-> q]

BoolLen(b) == IF b THEN 4 ELSE 5

\* The bytes of a float64 of at most two decimals below 10 as encoding/json
\* writes it, the value given times 100
FloatJSONLen(r) == IF r % 100 = 0 THEN 1 ELSE IF r % 10 = 0 THEN 3 ELSE 4

RECURSIVE SumDigits(_, _)
SumDigits(v, i) == IF i = 0 THEN 0 ELSE Digits(v[i]) + SumDigits(v, i - 1)

\* []float32 as JSON: null, or the numbers between brackets
EmbeddingJSONLen(e) ==
    IF e.isNil THEN 4
    ELSE 2 + SumDigits(e.v, Len(e.v)) + (IF Len(e.v) > 1 THEN Len(e.v) - 1 ELSE 0)

\* time.Duration as JSON: the nanoseconds
DurationJSONLen(seconds) == IF seconds = 0 THEN 1 ELSE Digits(seconds) + 9

\* The bytes of {"id":"","session_id":"","content":"","summary":"",
\* "embedding":,"relevance":,"timestamp":"","ttl":,"importance":""}
ChunkJSONFixedLen == 115
\* The bytes of a time.Time in UTC without fraction: 2006-01-02T15:04:05Z
TimestampLen == 20
\* The bytes of a session id
SessionIDLen == 2

ImportanceLen(importance) ==
    CASE importance = "high" -> 4
      [] importance = "medium" -> 6
      [] importance = "low" -> 3
      [] OTHER -> 0

\* json.Marshal of a types.ContextChunk
ChunkJSON(c) ==
    Str(ChunkJSONFixedLen + UUIDLen + SessionIDLen + c.Content.len
            + c.Summary.len + EmbeddingJSONLen(c.Embedding)
            + FloatJSONLen(c.Relevance) + TimestampLen
            + DurationJSONLen(c.TTL) + ImportanceLen(c.Importance),
        {"{", "}"} \cup c.Content.code \cup c.Summary.code)

\* The bytes of {"chunk_id":"","related_chunks":,"relationship_strength":,
\* "relationship_reason":""}
RelationshipJSONFixedLen == 83

\* json.Marshal of a types.ContextRelationship whose RelatedChunks names
\* one chunk
RelationshipJSON(rel) ==
    Str(RelationshipJSONFixedLen + UUIDLen + (UUIDLen + 4)
            + FloatJSONLen(rel.Strength) + rel.Reason.len,
        {"{", "}"} \cup rel.Reason.code)

\* A slice as JSON: null for nil, else the items between brackets
ListJSON(l, itemJSON(_)) ==
    IF l.isNil THEN Str(4, {})
    ELSE With([i \in 1..Len(l.items) |-> itemJSON(l.items[i])],
              LAMBDA parts :
                  Concat(Str(2 + (IF Len(parts) > 1 THEN Len(parts) - 1 ELSE 0), {}),
                         Join(parts, Len(parts))))

\* *types.ResponsePaging
NilPaging == [isNil |-> TRUE]

\* The bytes of ,"paging":{"page_size":,"current_page":,"total_pages":,
\* "total_items":,"has_more":}
PagingJSONFixedLen == 82
\* The bytes of ,"next_page_token":"" and of primary_page_
NextPageTokenFixedLen == 21
PrimaryPagePrefixLen == 13

\* The paging field, omitted when nil
PagingJSON(g) ==
    IF g.isNil THEN Str(0, {})
    ELSE Str(PagingJSONFixedLen + Digits(g.PageSize) + Digits(g.CurrentPage)
                 + Digits(g.TotalPages) + Digits(g.TotalItems)
                 + BoolLen(g.HasMore)
                 + (IF g.HasMore
                    THEN NextPageTokenFixedLen + PrimaryPagePrefixLen
                             + Digits(g.CurrentPage + 1)
                    ELSE 0),
             {"{", "}"})

\* The bytes of {"primary_chunks":,"related_chunks":,"relationships":,
\* "retrieval_reason":"","total_relevance":,"processing_time_ms":,
\* "token_limits":{"max_response_tokens":,"estimated_tokens":0,
\* "truncated_content":false}}
ResultJSONFixedLen == 204

\* json.Marshal of a types.PaginatedRetrievalResult before its estimate
\* and its truncation flag are set
ResultJSON(r) ==
    With(<<Str(ResultJSONFixedLen + FloatJSONLen(r.TotalRelevance)
                   + Digits(r.ProcessingTimeMs) + Digits(r.MaxResponseTokens),
               {"{", "}"}),
           r.RetrievalReason,
           ListJSON(r.PrimaryChunks, ChunkJSON),
           ListJSON(r.RelatedChunks, ChunkJSON),
           ListJSON(r.Relationships, RelationshipJSON),
           PagingJSON(r.Paging)>>,
         LAMBDA parts : Join(parts, Len(parts)))

(***************************************************************************)
(* The response limiter: packing                                           *)
(***************************************************************************)

Min(a, b) == IF a < b THEN a ELSE b

\* estimateChunkTokens: content, summary and 50 for the structure
estimateChunkTokens(c) ==
    EstimateTokens(c.Content) + EstimateTokens(c.Summary) + 50

RECURSIVE estimateChunksTokens(_, _)
estimateChunksTokens(cs, i) ==
    IF i = 0 THEN 0 ELSE estimateChunkTokens(cs[i]) + estimateChunksTokens(cs, i - 1)

\* strings.LastIndex(content[:maxChars], " ") for words of gap bytes with
\* one space between them; -1 without a space
LastSpace(text, maxChars) ==
    IF text.gap = 0 \/ maxChars \div (text.gap + 1) = 0 THEN -1
    ELSE (maxChars \div (text.gap + 1)) * (text.gap + 1) - 1

\* The bytes of "... [truncated]"
TruncatedSuffixLen == 15

\* truncateChunk: nil, the chunk, or the chunk with its content cut at
\* maxChars or at the last space before and the suffix added
truncateChunk(c, tokenBudget) ==
    LET availableForContent == tokenBudget - EstimateTokens(c.Summary) - 50
        maxChars == (availableForContent * 32) \div 10
        lastSpace == LastSpace(c.Content, maxChars)
        cut == IF lastSpace > maxChars \div 2 THEN lastSpace ELSE maxChars
    IN  IF tokenBudget <= 100 \/ availableForContent <= 50
        THEN [isNil |-> TRUE]
        ELSE IF c.Content.len <= maxChars THEN [isNil |-> FALSE, chunk |-> c]
        ELSE [isNil |-> FALSE,
              chunk |-> [c EXCEPT !.Content =
                            [len |-> cut + TruncatedSuffixLen,
                             code |-> c.Content.code,
                             gap |-> c.Content.gap]]]

\* The loop of limitChunksToTokenBudget from chunk i on
RECURSIVE LimitLoop(_, _, _, _, _)
LimitLoop(cs, i, usedTokens, result, tokenBudget) ==
    IF i > Len(cs) THEN result
    ELSE LET chunkTokens == estimateChunkTokens(cs[i])
             truncated == truncateChunk(cs[i], tokenBudget - 50)
         IN  IF usedTokens + chunkTokens > tokenBudget
             THEN IF limiter.TruncateContent /\ Len(result) = 0 /\ ~truncated.isNil
                  THEN <<truncated.chunk>>
                  ELSE result
             ELSE LimitLoop(cs, i + 1, usedTokens + chunkTokens,
                            Append(result, cs[i]), tokenBudget)

limitChunksToTokenBudget(cs, tokenBudget) ==
    IF Len(cs) = 0 \/ tokenBudget <= 0 THEN <<>>
    ELSE LimitLoop(cs, 1, 0, <<>>, tokenBudget)

\* The pages counted without the last, partial one
TotalPagesFloor(totalItems, pageSize) == totalItems \div pageSize

\* int(math.Ceil(float64(totalItems) / float64(pageSize)))
TotalPages(totalItems, pageSize) == CeilDiv(totalItems, pageSize)

\* paginateChunks: the chunks of the page and the paging; with chunks and
\* none of them fitting the page is 0 and the slice index is negative, a
\* run-time panic.
PageOf(cs, page, fittingChunks) ==
    LET pageSize == limiter.PageSize
        totalItems == Len(fittingChunks)
        totalPages == TotalPages(totalItems, pageSize)
        p1 == IF page < 1 THEN 1 ELSE page
        p == IF p1 > totalPages THEN totalPages ELSE p1
        startIdx == (p - 1) * pageSize
        endIdx == Min(startIdx + pageSize, totalItems)
    IN  IF totalItems = Len(cs) /\ totalItems <= pageSize
        THEN [panic |-> FALSE, chunks |-> fittingChunks, paging |-> NilPaging]
        ELSE IF startIdx < 0
        THEN [panic |-> TRUE, chunks |-> <<>>, paging |-> NilPaging]
        ELSE [panic |-> FALSE,
              chunks |-> [i \in 1..(endIdx - startIdx) |-> fittingChunks[startIdx + i]],
              paging |-> [isNil |-> FALSE, PageSize |-> pageSize,
                          CurrentPage |-> p, TotalPages |-> totalPages,
                          TotalItems |-> totalItems, HasMore |-> p < totalPages]]

paginateChunks(cs, page, tokenBudget) ==
    IF Len(cs) = 0
    THEN [panic |-> FALSE, chunks |-> <<>>, paging |-> NilPaging]
    ELSE With(limitChunksToTokenBudget(cs, tokenBudget),
              LAMBDA fittingChunks : PageOf(cs, page, fittingChunks))

\* fmt.Sprintf("%s %s %.3f", rel.ChunkID, rel.Reason, rel.Strength)
RelationshipText(rel) ==
    Concat(Str(UUIDLen + 1 + 1 + Float3Len, {}), rel.Reason)

RECURSIVE RelationshipLoop(_, _, _, _, _)
RelationshipLoop(rels, i, usedTokens, result, tokenBudget) ==
    IF i > Len(rels) THEN result
    ELSE LET relTokens == EstimateTokens(RelationshipText(rels[i]))
         IN  IF usedTokens + relTokens > tokenBudget THEN result
             ELSE RelationshipLoop(rels, i + 1, usedTokens + relTokens,
                                   Append(result, rels[i]), tokenBudget)

limitRelationshipsToTokenBudget(rels, tokenBudget) ==
    IF Len(rels) = 0 \/ tokenBudget <= 0 THEN <<>>
    ELSE RelationshipLoop(rels, 1, 0, <<>>, tokenBudget)

\* The text of RetrievalReason in the structure that measures the overhead
BaseReason == Str(35, {})

\* The chunks that fit the budget, paged or not
LimitOrPaginate(cs, page, tokenBudget) ==
    IF limiter.EnablePaging THEN paginateChunks(cs, page, tokenBudget)
    ELSE [panic |-> FALSE, chunks |-> limitChunksToTokenBudget(cs, tokenBudget),
          paging |-> NilPaging]

\* Phase 3 of fitContentWithinBudget: the relationships, up to 10%
FitRelationships(relationships, availableTokens, primary, related, usedTokens) ==
    LET remainingBudget == availableTokens - usedTokens
        relationshipBudget == Min(remainingBudget, availableTokens \div 10)
    IN  [panic |-> FALSE,
         primary |-> List(primary.chunks),
         related |-> related,
         relationships |->
             IF remainingBudget > 100 /\ Len(relationships) > 0
             THEN List(limitRelationshipsToTokenBudget(relationships,
                                                       relationshipBudget))
             ELSE NilList,
         paging |-> primary.paging]

\* Phase 2: the related chunks, up to 30% and to half of what is left
FitRelated(relatedChunks, relationships, availableTokens, primary, usedTokens) ==
    LET remainingBudget == availableTokens - usedTokens
        relatedBudget == Min(remainingBudget \div 2, (availableTokens * 3) \div 10)
    IN  IF remainingBudget > 200 /\ Len(relatedChunks) > 0
        THEN With(LimitOrPaginate(relatedChunks, 1, relatedBudget),
                  LAMBDA related :
                      IF related.panic THEN [panic |-> TRUE]
                      ELSE FitRelationships(
                               relationships, availableTokens, primary,
                               List(related.chunks),
                               usedTokens + estimateChunksTokens(related.chunks,
                                                                 Len(related.chunks))))
        ELSE FitRelationships(relationships, availableTokens, primary, NilList,
                              usedTokens)

\* Phase 1 without the return of an empty response on a small budget
FitPrimaryAlways(primaryChunks, relatedChunks, relationships, page, availableTokens) ==
    With(LimitOrPaginate(primaryChunks, page, (availableTokens * 6) \div 10),
         LAMBDA primary :
             IF primary.panic THEN [panic |-> TRUE]
             ELSE With(estimateChunksTokens(primary.chunks, Len(primary.chunks)),
                       LAMBDA usedTokens :
                           FitRelated(relatedChunks, relationships,
                                      availableTokens, primary, usedTokens)))

\* Phase 1: the primary chunks, 60%
FitPrimary(primaryChunks, relatedChunks, relationships, page, availableTokens) ==
    IF availableTokens <= 500
    THEN [panic |-> FALSE, primary |-> List(<<>>), related |-> List(<<>>),
          relationships |-> List(<<>>), paging |-> NilPaging]
    ELSE With(LimitOrPaginate(primaryChunks, page, (availableTokens * 6) \div 10),
              LAMBDA primary :
                  IF primary.panic THEN [panic |-> TRUE]
                  ELSE With(estimateChunksTokens(primary.chunks, Len(primary.chunks)),
                            LAMBDA usedTokens :
                                FitRelated(relatedChunks, relationships,
                                           availableTokens, primary, usedTokens)))

\* The structure fitContentWithinBudget measures the overhead with
baseStructure ==
    [RetrievalReason |-> BaseReason, TotalRelevance |-> 0,
     ProcessingTimeMs |-> 0, MaxResponseTokens |-> limiter.MaxTokens,
     PrimaryChunks |-> List(<<>>), RelatedChunks |-> List(<<>>),
     Relationships |-> List(<<>>), Paging |-> NilPaging]

baseOverhead == EstimateTokensForResponse(ResultJSON(baseStructure))

\* fitContentWithinBudget: the budget is MaxTokens less the estimate of an
\* empty result and 200
fitContentWithinBudget(primaryChunks, relatedChunks, relationships, page) ==
    With(limiter.MaxTokens - baseOverhead - 200,
         LAMBDA availableTokens :
             FitPrimary(primaryChunks, relatedChunks, relationships, page,
                        availableTokens))

\* The reason, the total relevance (times 100) and the processing time a
\* caller passes
RetrievalReason == Str(40, {})
TotalRelevance == 160
ProcessingTimeMs == 12

\* LimitContextAwareRetrievalResponse: the packed result with its estimate
PackedResult(primaryChunks, relatedChunks, relationships, fit) ==
    LET result == [RetrievalReason |-> RetrievalReason,
                   TotalRelevance |-> TotalRelevance,
                   ProcessingTimeMs |-> ProcessingTimeMs,
                   MaxResponseTokens |-> limiter.MaxTokens,
                   PrimaryChunks |-> fit.primary, RelatedChunks |-> fit.related,
                   Relationships |-> fit.relationships, Paging |-> fit.paging]
    IN  IF fit.panic THEN [panic |-> TRUE]
        ELSE [panic |-> FALSE,
              PrimaryChunks |-> fit.primary.items,
              RelatedChunks |-> fit.related.items,
              Relationships |-> fit.relationships.items,
              Paging |-> fit.paging,
              TokenLimits |->
                  [MaxResponseTokens |-> limiter.MaxTokens,
                   EstimatedTokens |-> EstimateTokensForResponse(ResultJSON(result)),
                   TruncatedContent |->
                       \/ Len(fit.primary.items) < Len(primaryChunks)
                       \/ Len(fit.related.items) < Len(relatedChunks)
                       \/ Len(fit.relationships.items) < Len(relationships)]]

LimitResult(primaryChunks, relatedChunks, relationships, page) ==
    With(fitContentWithinBudget(primaryChunks, relatedChunks, relationships, page),
         LAMBDA fit : PackedResult(primaryChunks, relatedChunks, relationships, fit))

(***************************************************************************)
(* The response limiter as it is called                                    *)
(***************************************************************************)

\* The longest lists of primary and of related chunks
MaxPrimary == 2
MaxRelated == 1

\* The chunks a result is packed from
PackChunks ==
    { Chunk("c1", "s1", [Content |-> TextA, Summary |-> TextA, Embedding |-> EmbX,
                         Relevance |-> 90, Importance |-> "high", TTL |-> 0], 0),
      Chunk("c2", "s1", [Content |-> TextC, Summary |-> NoText, Embedding |-> EmbY,
                         Relevance |-> 70, Importance |-> "medium", TTL |-> 1], 0),
      Chunk("c3", "s1", [Content |-> TextL, Summary |-> NoText,
                         Embedding |-> NilEmbedding,
                         Relevance |-> 50, Importance |-> "low", TTL |-> 0], 0),
      Chunk("c1", "s1", [Content |-> TextC, Summary |-> TextC, Embedding |-> EmbX,
                         Relevance |-> 70, Importance |-> "medium", TTL |-> 0], 0) }

SeqsUpTo(S, n) == UNION {[1..k -> S] : k \in 0..n}

\* The relationships a caller passes: none or one
RelationshipLists ==
    { <<>>,
      <<[ChunkID |-> "c1", RelatedChunks |-> <<"c2">>, Strength |-> 72,
         Reason |-> Str(27, {})]>> }

Pages == 0..3

\* The configurations a limiter is made with
LimiterConfigs ==
    [MaxTokens : {50, 582, 783, 1000, 20000}, EnablePaging : BOOLEAN, PageSize : {1, 10},
     TruncateContent : BOOLEAN]

\* The limiter made by NewResponseLimiterWithConfig, and the call to make
InitPack ==
    /\ ComponentsInit
    /\ now = 0
    /\ ttlDefault = 0
    /\ chunkSize = ChunkSize
    /\ rpc = NoRequests
    /\ issued = 0
    /\ limiter \in LimiterConfigs
    /\ sessions = {}
    /\ chunks = {}
    /\ sessionStats = {}
    /\ putLog = [id \in ChunkIDs |-> NotFound]
    /\ last \in [op : {"call"},
                 primaryChunks : SeqsUpTo(PackChunks, MaxPrimary),
                 relatedChunks : SeqsUpTo(PackChunks, MaxRelated),
                 relationships : RelationshipLists, page : Pages]

LimitContextAwareRetrievalResponse ==
    /\ last.op = "call"
    /\ last' = [op |-> "LimitContextAwareRetrievalResponse",
                primaryChunks |-> last.primaryChunks,
                relatedChunks |-> last.relatedChunks,
                relationships |-> last.relationships, page |-> last.page,
                result |-> LimitResult(last.primaryChunks, last.relatedChunks,
                                       last.relationships, last.page)]
    /\ UNCHANGED <<components, now, ttlDefault, chunkSize, rpc, issued, limiter, sessions, chunks, sessionStats, putLog>>

NextPack == LimitContextAwareRetrievalResponse

SpecPack == InitPack /\ [][NextPack]_vars

\* C9 as claimed: the result of the packing reports estimated_tokens <=
\* max_tokens, for every input and every configuration.
C9_EstimateWithinMaxTokens ==
    last.op = "LimitContextAwareRetrievalResponse" =>
        /\ ~last.result.panic
        /\ last.result.TokenLimits.EstimatedTokens <= limiter.MaxTokens

\* C38: the packing returns a result for every input; with paging enabled
\* and no primary chunk fitting its budget, not even the first one cut, the
\* result has no primary chunk.
C38_PackingReturns ==
    last.op = "LimitContextAwareRetrievalResponse"
        => /\ ~last.result.panic
           /\ (/\ limiter.EnablePaging
               /\ limiter.MaxTokens - baseOverhead - 200 > 500
               /\ limitChunksToTokenBudget(
                      last.primaryChunks,
                      ((limiter.MaxTokens - baseOverhead - 200) * 6) \div 10) = <<>>)
                  => Len(last.result.PrimaryChunks) = 0

\* The call packed had a chunk or a relationship to return
HasContent ==
    \/ Len(last.primaryChunks) > 0
    \/ Len(last.relatedChunks) > 0
    \/ Len(last.relationships) > 0

\* The result of the call holds no chunk and no relationship
EmptyResult ==
    /\ ~last.result.panic
    /\ Len(last.result.PrimaryChunks) = 0
    /\ Len(last.result.RelatedChunks) = 0
    /\ Len(last.result.Relationships) = 0

\* C11 as claimed: with max_tokens <= base_overhead + 500 the packing returns
\* no primary chunk, no related chunk and no relationship, and reports
\* truncated_content = true.
C11_SmallBudgetEmptyAndTruncated ==
    (last.op = "LimitContextAwareRetrievalResponse"
         /\ limiter.MaxTokens <= baseOverhead + 500)
        => EmptyResult /\ last.result.TokenLimits.TruncatedContent

\* C11 as the code has it: with max_tokens <= base_overhead + 500 the packing
\* returns no primary chunk, no related chunk and no relationship, and reports
\* truncated_content = true exactly when it was given a chunk or a
\* relationship.
C11_SmallBudgetEmpty ==
    (last.op = "LimitContextAwareRetrievalResponse"
         /\ limiter.MaxTokens <= baseOverhead + 500)
        => /\ EmptyResult
           /\ last.result.TokenLimits.TruncatedContent = HasContent

\* A packing at max_tokens = base_overhead + 500 of a call with a primary
\* chunk has returned nothing and reported the truncation.
C11_Witness ==
    /\ last.op = "LimitContextAwareRetrievalResponse"
    /\ limiter.MaxTokens = baseOverhead + 500
    /\ Len(last.primaryChunks) > 0
    /\ EmptyResult
    /\ last.result.TokenLimits.TruncatedContent

(***************************************************************************)
(* The pages of a list of chunks                                           *)
(***************************************************************************)

\* The longest list of chunks that is paged
MaxPageChunks == 25

\* n chunks that differ in their time stamps
PageChunks(n) ==
    [i \in 1..n |->
        Chunk("c1", "s1", [Content |-> TextA, Summary |-> TextA, Embedding |-> EmbX,
                           Relevance |-> 90, Importance |-> "high", TTL |-> 0], i)]

\* Token budgets for 3 and for 12 of these chunks, and for more than all
PageBudgets ==
    {k * estimateChunkTokens(PageChunks(1)[1]) : k \in {3, 12, MaxPageChunks + 2}}

\* A limiter, and the list, the page and the budget to call it with
InitPage ==
    /\ ComponentsInit
    /\ now = 0
    /\ ttlDefault = 0
    /\ chunkSize = ChunkSize
    /\ rpc = NoRequests
    /\ issued = 0
    /\ limiter \in [MaxTokens : {20000}, EnablePaging : BOOLEAN,
                    PageSize : {1, 2, 10}, TruncateContent : {FALSE}]
    /\ sessions = {}
    /\ chunks = {}
    /\ sessionStats = {}
    /\ putLog = [id \in ChunkIDs |-> NotFound]
    /\ last \in [op : {"call"}, n : 0..MaxPageChunks, page : 0..4,
                 tokenBudget : PageBudgets]

\* The first phase of fitContentWithinBudget: paginateChunks with paging
\* enabled, limitChunksToTokenBudget without
PaginatePrimary ==
    /\ last.op = "call"
    /\ last' = [op |-> "paginateChunks", n |-> last.n, page |-> last.page,
                tokenBudget |-> last.tokenBudget,
                fitting |-> limitChunksToTokenBudget(PageChunks(last.n),
                                                     last.tokenBudget),
                result |-> LimitOrPaginate(PageChunks(last.n), last.page,
                                           last.tokenBudget)]
    /\ UNCHANGED <<components, now, ttlDefault, chunkSize, rpc, issued, limiter, sessions, chunks, sessionStats, putLog>>

NextPage == PaginatePrimary

SpecPage == InitPage /\ [][NextPage]_vars

\* The page asked for, brought into 1..totalPages
ClampedPage(page, totalPages) ==
    IF page < 1 THEN 1 ELSE IF page > totalPages THEN totalPages ELSE page

\* C27: with paging enabled and more than page_size chunks fitting the
\* budget, the chunks returned are those of the page asked for, brought
\* into 1..total_pages, at most page_size of them; total_pages is
\* total_items / page_size rounded up, current_page is that page and
\* has_more says that it is before the last. 25 fitting chunks at
\* page_size 10 and page 2 give 10 chunks, total_pages 3 and has_more.
C27_PageOfFittingChunks ==
    (/\ last.op = "paginateChunks"
     /\ limiter.EnablePaging
     /\ Len(last.fitting) > limiter.PageSize)
        => LET g == last.result.paging
               size == limiter.PageSize
               total == Len(last.fitting)
               first == (g.CurrentPage - 1) * size + 1
           IN  /\ ~last.result.panic
               /\ ~g.isNil
               /\ g.PageSize = size
               /\ g.TotalItems = total
               /\ (g.TotalPages - 1) * size < total
               /\ total <= g.TotalPages * size
               /\ g.CurrentPage = ClampedPage(last.page, g.TotalPages)
               /\ g.HasMore = (g.CurrentPage < g.TotalPages)
               /\ Len(last.result.chunks) <= size
               /\ last.result.chunks
                      = SubSeq(last.fitting, first, Min(first + size - 1, total))
               /\ (total = 25 /\ size = 10 /\ last.page = 2)
                      => /\ Len(last.result.chunks) = 10
                         /\ g.TotalPages = 3
                         /\ g.HasMore

\* Page 2 of 25 fitting chunks at page_size 10 has been returned.
C27_Witness ==
    /\ last.op = "paginateChunks"
    /\ limiter.EnablePaging
    /\ limiter.PageSize = 10
    /\ Len(last.fitting) = 25
    /\ last.page = 2
    /\ Len(last.result.chunks) = 10
    /\ last.result.chunks[1].Timestamp = 11

\* A chunk of the list returned holds less content than the chunk of the
\* same ID that was given
ContentCut(given, returnedChunks) ==
    \E i \in DOMAIN returnedChunks, j \in DOMAIN given :
        /\ returnedChunks[i].ID = given[j].ID
        /\ returnedChunks[i].Content # given[j].Content

\* The packing shortened something: the content of a chunk, or a list
Shortened ==
    \/ ContentCut(last.primaryChunks, last.result.PrimaryChunks)
    \/ ContentCut(last.relatedChunks, last.result.RelatedChunks)
    \/ Len(last.result.PrimaryChunks) < Len(last.primaryChunks)
    \/ Len(last.result.RelatedChunks) < Len(last.relatedChunks)
    \/ Len(last.result.Relationships) < Len(last.relationships)

\* C26: truncated_content is true if and only if the packing shortened
\* something: the content of a chunk was truncated, or a list of primary
\* chunks, of related chunks or of relationships came back shorter than it
\* was given.
C26_TruncatedIffShortened ==
    (last.op = "LimitContextAwareRetrievalResponse" /\ ~last.result.panic)
        => last.result.TokenLimits.TruncatedContent = Shortened

(***************************************************************************)
(* The store: put, get and scan                                            *)
(***************************************************************************)

\* The fields a get gives back as they were put
SameChunk(c, d) ==
    /\ c.ID = d.ID
    /\ c.SessionID = d.SessionID
    /\ c.Content = d.Content
    /\ c.Summary = d.Summary
    /\ c.Embedding = d.Embedding
    /\ c.Relevance = d.Relevance
    /\ c.Importance = d.Importance

\* The deadline of the chunk last put under id has passed
DeadlinePassed(id) ==
    /\ putLog[id].chunk.TTL > 0
    /\ now >= putLog[id].at + putLog[id].chunk.TTL

\* C1: after successful puts on one chunk id (and no delete since) the
\* table holds exactly one row for the id, and a get of it, while it has
\* not expired, returns the content, summary, embedding, relevance,
\* importance and session of the last put.
C1_PutGetRoundTrip ==
    \A id \in ChunkIDs :
        putLog[id].found =>
            /\ Cardinality({r \in chunks : r.id = id}) = 1
            /\ ~DeadlinePassed(id) =>
                   /\ GetChunkResult(id).found
                   /\ SameChunk(GetChunkResult(id).chunk, putLog[id].chunk)
            /\ (last.op = "GetChunk" /\ last.id = id /\ last.out.found) =>
                   SameChunk(last.out.chunk, putLog[id].chunk)

\* A get has returned the chunk of a put that replaced an earlier one.
C1_Witness ==
    /\ last.op = "GetChunk"
    /\ last.out.found
    /\ putLog[last.id].found
    /\ putLog[last.id].replaced
    /\ last.out.chunk.Content = putLog[last.id].chunk.Content

\* C2: once the clock has reached the deadline of a chunk put with ttl > 0,
\* a get of it finds nothing, whether the row is still in the table or not.
C2_ExpiredNotFound ==
    \A id \in ChunkIDs :
        (putLog[id].found /\ DeadlinePassed(id)) =>
            /\ ~GetChunkResult(id).found
            /\ (last.op = "GetChunk" /\ last.id = id) => ~last.out.found

\* A get has found nothing for a chunk whose row is still in the table.
C2_Witness ==
    /\ last.op = "GetChunk"
    /\ ~last.out.found
    /\ putLog[last.id].found
    /\ DeadlinePassed(last.id)
    /\ \E r \in chunks : r.id = last.id

\* C3: every chunk a scan of session s returns belongs to s and has no ttl
\* deadline or one later than the time of the scan.
C3_ScanSessionAndTTL ==
    last.op = "SearchByEmbedding" =>
        \A i \in 1..Len(last.out) :
            /\ last.out[i].SessionID = last.session
            /\ \E r \in chunks :
                  /\ r.id = last.out[i].ID
                  /\ r.session_id = last.session
                  /\ ~r.ttl.Valid \/ r.ttl.Time > now

\* A scan has returned a chunk of a session that also holds an expired
\* chunk.
C3_Witness ==
    /\ last.op = "SearchByEmbedding"
    /\ Len(last.out) > 0
    /\ \E r \in chunks :
          r.session_id = last.session /\ r.ttl.Valid /\ r.ttl.Time <= now

\* The chunk last put under id is in the table, unexpired, in session s
LivePut(id, s) ==
    /\ putLog[id].found
    /\ putLog[id].chunk.SessionID = s
    /\ ~DeadlinePassed(id)

C8_ChunksReferenceSessions ==
    /\ [](\A r \in chunks : r.session_id \in sessions)
    /\ [][(last'.op = "StoreChunk" /\ last'.session \notin sessions)
            => (chunks' = chunks /\ ~last'.ok)]_vars

\* A put naming no session was refused while the table held rows.
C8_Witness ==
    /\ last.op = "StoreChunk"
    /\ last.session \notin sessions
    /\ ~last.ok
    /\ \E r \in chunks : r.id = last.id

(***************************************************************************)
(* The cleanups                                                            *)
(***************************************************************************)

\* The ids of the rows a step deletes
DeletedByStep == IdsOf(chunks) \ IdsOf(chunks')

C6_ExpiredSessionCleaned ==
    [][(/\ last'.op = "cleanupSession"
        /\ last'.strategy = "ttl"
        /\ RowsOfSession(last'.session) # {}
        /\ RowsOfSession(last'.session) = ExpiredRows(last'.session))
       => (/\ \A r \in chunks' : r.session_id # last'.session
           /\ last'.ChunksRemoved = Cardinality(RowsOfSession(last'.session))
           /\ last'.RemainingChunks = 0)]_vars

\* C7 as claimed: the removed count and the remaining count that
\* cleanup_session and smart_memory_manager report are the number of chunks
\* the call deleted and the number of visible chunks it left, also when
\* deleting some of the selected chunks fails.
C7_ReportedCountsAreActual ==
    [][last'.op \in {"cleanupSession", "smartMemoryManager"} =>
          /\ last'.ChunksRemoved = Cardinality(DeletedByStep)
          /\ last'.RemainingChunks
                 = Cardinality({r \in chunks' :
                                   r.session_id = last'.session /\ NotExpired(r)})]_vars

(***************************************************************************)
(* The response budget                                                     *)
(***************************************************************************)

\* C10 as claimed: the response of context_aware_retrieve is estimated at
\* no more tokens than the max_response_tokens of the request.
C10_ResponseWithinBudget ==
    last.op = "contextAwareRetrieve" =>
        last.estimated <= last.args.max_response_tokens
(***************************************************************************)
(* The server as its store and retrieval tools are called                  *)
(***************************************************************************)

NextRetrieve ==
    \/ Tick
    \/ \E s \in ServerSessions : CreateSession(s)
    \/ \E s \in ServerSessions, req \in StoreRequests :
          storeContext(s, req.content, req.importance) /\ UNCHANGED rpc
    \/ \E s \in ServerSessions, taskType \in TaskTypes, args \in Retrievals :
          contextAwareRetrieve(s, CurrentTask, taskType, args)

SpecRetrieve == InitServer /\ [][NextRetrieve]_vars

(***************************************************************************)
(* The order of a retrieval                                                *)
(***************************************************************************)

\* The scores of a retrieval's chunks are pairwise different
DistinctScores(r) ==
    \A i, j \in 1..Len(r.scores) : i # j => r.scores[i] # r.scores[j]

\* C12 as claimed, for context_aware_retrieve and results without equal
\* scores: a retrieval made again with the same arguments on the same store
\* state, the scan returning the chunks in the same order, returns the same
\* chunk ids in the same order.
C12_RetrievalOrderStable ==
    [][(/\ last.op = "contextAwareRetrieve"
        /\ last'.op = "contextAwareRetrieve"
        /\ last'.session = last.session
        /\ last'.task_type = last.task_type
        /\ last'.args = last.args
        /\ last'.scan = last.scan
        /\ chunks' = chunks /\ now' = now
        /\ DistinctScores(last) /\ DistinctScores(last'))
       => last'.ids = last.ids]_vars

(***************************************************************************)
(* The chunks a retrieval ranks                                            *)
(***************************************************************************)

\* store_context requests: a short text of low importance, a long one of
\* medium importance
RankRequests ==
    { [content |-> TextA, importance |-> "low"],
      [content |-> TextC, importance |-> "medium"] }

NextRank ==
    \/ Tick
    \/ \E s \in ServerSessions : CreateSession(s)
    \/ \E s \in ServerSessions, req \in RankRequests :
          storeContext(s, req.content, req.importance) /\ UNCHANGED rpc
    \/ \E s \in ServerSessions, taskType \in TaskTypes, args \in Retrievals :
          contextAwareRetrieve(s, CurrentTask, taskType, args)

SpecRank == InitServer /\ [][NextRank]_vars

\* The final scores calculateTaskAwareRelevance may give the chunk of row r
FinalScores(r, taskType) ==
    {calculateTaskAwareRelevance(ScanRow(r), taskType, boost) :
         boost \in TaskBoostChoices(ScanRow(r), taskType)}

\* C28: context_aware_retrieve returns the max_chunks chunks of the
\* highest final, task-boosted score among all chunks of the session that
\* have not expired, in descending order of that score: as many as
\* max_chunks or all of them, and no chunk left out scores above a chunk
\* returned.
C28_TopByFinalScore ==
    last.op = "contextAwareRetrieve" =>
        LET visible == VisibleRows(last.session)
            n == Len(last.ids)
        IN  /\ n = Min(last.args.max_chunks, Cardinality(visible))
            /\ \A i \in 1..n : \E r \in visible : r.id = last.ids[i]
            /\ \A i, j \in 1..n : i < j => last.scores[i] >= last.scores[j]
            /\ \A r \in visible :
                   (\A i \in 1..n : last.ids[i] # r.id)
                       => \A i \in 1..n :
                              \E score \in FinalScores(r, last.task_type) :
                                  score <= last.scores[i]

(***************************************************************************)
(* The sweeps of smart_memory_manager over a session of many chunks        *)
(***************************************************************************)

\* The most chunks the session swept holds
MaxSweepChunks == 11

\* The time of the sweeps: two days after the first chunk was stored
SweepTime == 2 * 24 * SecondsPerHour

\* The chunks of the session: an old chunk of low importance and low
\* relevance; one like it of higher relevance; one like that stored two
\* hours ago; one like that of medium importance; and chunks of high
\* importance and relevance stored within the last minute.
SweepChunk(i) ==
    LET c == CASE i = 1 -> [relevance |-> 20, importance |-> "low", created_at |-> 0]
               [] i = 2 -> [relevance |-> 60, importance |-> "low", created_at |-> 0]
               [] i = 3 -> [relevance |-> 60, importance |-> "low",
                            created_at |-> SweepTime - 2 * SecondsPerHour]
               [] i = 4 -> [relevance |-> 60, importance |-> "medium",
                            created_at |-> SweepTime - 2 * SecondsPerHour]
               [] OTHER -> [relevance |-> 90, importance |-> "high",
                            created_at |-> SweepTime - i]
    IN  [id |-> <<"w", i>>, session_id |-> "s1", content |-> TextA,
         summary |-> TextA, embedding |-> MarshalEmbedding(EmbX).data,
         relevance |-> c.relevance, importance |-> c.importance,
         created_at |-> c.created_at, updated_at |-> c.created_at,
         ttl |-> NullTime]

\* The session holds the first n of these chunks
InitSweep ==
    /\ ComponentsInit
    /\ now = SweepTime
    /\ ttlDefault = 0
    /\ chunkSize = ChunkSize
    /\ rpc = NoRequests
    /\ issued = 0
    /\ limiter = NewResponseLimiter
    /\ sessions = {"s1"}
    /\ \E n \in 0..MaxSweepChunks : chunks = {SweepChunk(i) : i \in 1..n}
    /\ sessionStats = StatsOf(chunks)
    /\ putLog = [id \in ChunkIDs |-> NotFound]
    /\ last = [op |-> "none"]

NextSweep ==
    \E s \in ServerSessions, phase \in SessionPhases,
       strategy \in MemoryStrategies, preserve \in BOOLEAN :
        smartMemoryManager(s, phase, strategy, preserve)

SpecSweep == InitSweep /\ [][NextSweep]_vars

\* The chunks the scan of a sweep returned
Swept(record) == record.ChunksRemoved + record.RemainingChunks

\* C32 as claimed: a sweep of smart_memory_manager removes at most
\* floor(ratio * n) chunks, n being the chunks of the session and ratio the
\* entry of the table for the strategy and the phase; the conservative
\* strategy in the deployment phase removes nothing.
C32_AtMostRatio ==
    last.op = "smartMemoryManager" =>
        last.ChunksRemoved
            <= (Swept(last) * getCleanupRatio(last.strategy, last.phase)) \div 100

\* C32 as the code has it: a sweep removes at most floor(ratio * n) chunks,
\* and at most one chunk where that is 0 and the session holds more than
\* 10 chunks.
C32_AtMostRatioOrOne ==
    [][last'.op = "smartMemoryManager" =>
          LET n == Swept(last')
              floor == (n * getCleanupRatio(last'.strategy, last'.phase)) \div 100
          IN  /\ n = Cardinality(VisibleRows(last'.session))
              /\ last'.ChunksRemoved
                     <= IF floor = 0 /\ n > 10 THEN 1 ELSE floor
              /\ Cardinality(chunks \ chunks') <= last'.ChunksRemoved]_vars

\* The conservative strategy in the deployment phase has removed one of 11
\* chunks.
C32_Witness ==
    /\ last.op = "smartMemoryManager"
    /\ last.strategy = "conservative"
    /\ last.phase = "deployment"
    /\ Swept(last) = 11
    /\ last.ChunksRemoved = 1
    /\ Cardinality(chunks) = 10

\* C33: the balanced strategy never removes a chunk of importance high,
\* whether preserve_important is set or not.
C33_BalancedKeepsHigh ==
    [][(last'.op = "smartMemoryManager" /\ last'.strategy = "balanced")
          => \A r \in chunks \ chunks' : r.importance # "high"]_vars

\* Row r is a candidate of the balanced cleanup whatever preserve_important
\* is, and was deleted by the step
Candidate(r) == r \in chunks /\ BalancedCandidate(ScanRow(r))

\* The rows differ in the field named and in their ids only
DifferOnlyIn(r, q, field) ==
    /\ r.id # q.id
    /\ field = "relevance" \/ r.relevance = q.relevance
    /\ field = "created_at" \/ r.created_at = q.created_at
    /\ field = "importance" \/ r.importance = q.importance
    /\ r.content = q.content /\ r.session_id = q.session_id

ImportanceRank(importance) ==
    CASE importance = "low" -> 0 [] importance = "medium" -> 1 [] OTHER -> 2

\* C34: of two candidates of the balanced cleanup that differ only in
\* relevance the one of lower relevance is selected first, of two that
\* differ only in age the older, of two that differ only in importance the
\* less important: a sweep that deletes what it selected does not delete
\* the other one and keep this one.
C34_WorstFirst ==
    [][(/\ last'.op = "smartMemoryManager"
        /\ last'.strategy = "balanced"
        /\ Cardinality(chunks \ chunks') = last'.ChunksRemoved)
          => \A r, q \in chunks :
                 (/\ Candidate(r) /\ Candidate(q)
                  /\ \/ DifferOnlyIn(r, q, "relevance") /\ r.relevance < q.relevance
                     \/ DifferOnlyIn(r, q, "created_at") /\ r.created_at < q.created_at
                     \/ /\ DifferOnlyIn(r, q, "importance")
                        /\ ImportanceRank(r.importance) < ImportanceRank(q.importance)
                  /\ q \notin chunks')
                     => r \notin chunks']_vars

(***************************************************************************)
(* The session manager (internal/session/manager.go)                       *)
(***************************************************************************)

\* The working directories: /w/a/sub lies in the git repository at /w/a.
Dirs == {"/w/a", "/w/a/sub", "/w/b"}

\* os.Getwd()
Cwd == "/w/b"

\* generateProjectID: the first 16 hex digits of the SHA-256 of the git root
\* or the canonical path, here as its first eight digits and the rest
generateProjectID(canonicalPath) ==
    CASE canonicalPath = "/w/a" -> <<"1a2b3c4d", "5e6f7081">>
      [] canonicalPath = "/w/b" -> <<"9f8e7d6c", "5b4a3921">>

\* DetectProject: the git root is the canonical path of a directory in a
\* repository
DetectProject(workingDir) ==
    LET canonicalPath == IF workingDir = "/w/a/sub" THEN "/w/a" ELSE workingDir
    IN  [ID |-> generateProjectID(canonicalPath), CanonicalPath |-> canonicalPath]

\* generateSessionID for a main session: projectInfo.ID[:8] + "-main"
generateSessionID(projectInfo) ==
    CASE projectInfo.ID[1] = "1a2b3c4d" -> "1a2b3c4d-main"
      [] projectInfo.ID[1] = "9f8e7d6c" -> "9f8e7d6c-main"

\* A call of the session manager that has not begun
Idle(c) == calls[c].pc = "idle"

\* What the other parts of the model keep during a step of the manager
storeVars == <<ttlDefault, chunkSize, rpc, issued, limiter, chunks, sessionStats, putLog, cacheVars,
               breakerVars, retryVars, monitorVars>>

\* INSERT OR REPLACE INTO sessions: one row for an id; the project of the
\* row must be a row of projects (FOREIGN KEY (project_id)).
SessionForeignKeyOK(session) == session.project_id \in projects

\* An INSERT into a table without the primary key
InsertSessionAgain(rows, session) == rows \cup {session}

InsertSession(rows, session) ==
    {r \in rows : r.id # session.id} \cup {session}

\* UPDATE sessions SET name, type, parent_session_id, last_active, status,
\* working_dir, metadata WHERE id = ?
UpdateSession(rows, session) ==
    {IF r.id = session.id
     THEN [r EXCEPT !.type = session.type, !.status = session.status,
                    !.last_active = session.last_active,
                    !.working_dir = session.working_dir]
     ELSE r : r \in rows}

\* The session with LastActive left at the zero time
TouchedNever(session, workingDir) ==
    [session EXCEPT !.last_active = 0, !.working_dir = workingDir]

\* session.LastActive = time.Now(); session.WorkingDir = workingDir
Touched(session, workingDir) ==
    [session EXCEPT !.last_active = now, !.working_dir = workingDir]

\* GetProjectSessions ... ORDER BY last_active DESC, and the first of them
\* that is a main session and active
MainSessions(projectID) ==
    LET rows == {r \in sessionRows : r.project_id = projectID}
        main == {r \in rows : r.type = "main" /\ r.status = "active"}
    IN  {r \in main :
            \A q \in rows :
                (q.last_active > r.last_active) => q \notin main}

\* GetOrCreateProjectSession begins: DetectProject
GetOrCreateProjectSession(c, workingDir) ==
    /\ Idle(c)
    /\ calls' = [calls EXCEPT ![c] =
                    [pc |-> "find", dir |-> workingDir,
                     project |-> DetectProject(workingDir), created |-> FALSE]]
    /\ last' = [op |-> "DetectProject", caller |-> c, dir |-> workingDir]
    /\ UNCHANGED <<now, sessions, storeVars, projects, sessionRows,
                   sessionCache, returned>>

\* getOrCreateMainSession: findMainSession, or the SessionInfo that
\* createMainSession makes
getOrCreateMainSession(c) ==
    LET call == calls[c]
        found == MainSessions(call.project.ID)
        made == [id |-> generateSessionID(call.project),
                 project_id |-> call.project.ID, type |-> "main",
                 status |-> "active", created_at |-> now, last_active |-> now,
                 working_dir |-> call.dir]
    IN  /\ call.pc = "find"
        /\ IF found # {}
           THEN \E r \in found :
                    calls' = [calls EXCEPT ![c] =
                                 [call EXCEPT !.pc = "update"] @@
                                 [session |-> [r EXCEPT !.working_dir = call.dir]]]
           ELSE calls' = [calls EXCEPT ![c] =
                             [call EXCEPT !.pc = "createProject",
                                          !.created = TRUE] @@
                             [session |-> made]]
        /\ last' = [op |-> "getOrCreateMainSession", caller |-> c]
        /\ UNCHANGED <<now, sessions, storeVars, projects, sessionRows,
                       sessionCache, returned>>

\* What a call leaves behind when it returns
Done(call) == [call EXCEPT !.pc = "idle"]

\* createSessionInStorage, first statement: CreateProject (INSERT OR REPLACE
\* INTO projects)
CreateProject(c) ==
    LET call == calls[c]
    IN  /\ call.pc = "createProject"
        /\ projects' = projects \cup {call.project.ID}
        /\ calls' = [calls EXCEPT ![c] = [call EXCEPT !.pc = "createSession"]]
        /\ last' = [op |-> "CreateProject", caller |-> c]
        /\ UNCHANGED <<now, sessions, storeVars, sessionRows, sessionCache,
                       returned>>

\* createSessionInStorage, second statement: CreateSession; an error ends
\* the call.
CreateSessionRow(c) ==
    LET call == calls[c]
        ok == SessionForeignKeyOK(call.session)
    IN  /\ call.pc = "createSession"
        /\ sessionRows' = IF ok THEN InsertSession(sessionRows, call.session)
                          ELSE sessionRows
        /\ sessions' = IF ok THEN sessions \cup {call.session.id} ELSE sessions
        /\ calls' = [calls EXCEPT ![c] =
                        IF ok THEN [call EXCEPT !.pc = "update"] ELSE Done(call)]
        /\ last' = IF ok THEN [op |-> "CreateSession", caller |-> c]
                   ELSE [op |-> "GetOrCreateProjectSession", caller |-> c,
                         dir |-> call.dir, ok |-> FALSE]
        /\ UNCHANGED <<now, storeVars, projects, sessionCache, returned>>

\* session.LastActive = time.Now(); updateSessionActivity
updateSessionActivity(c) ==
    LET call == calls[c]
        session == Touched(call.session, call.dir)
    IN  /\ call.pc = "update"
        /\ sessionRows' = UpdateSession(sessionRows, session)
        /\ calls' = [calls EXCEPT ![c] =
                        [call EXCEPT !.pc = "cache", !.session = session]]
        /\ last' = [op |-> "updateSessionActivity", caller |-> c]
        /\ UNCHANGED <<now, sessions, storeVars, projects, sessionCache,
                       returned>>

\* sm.sessionCache[session.ID] = session; return session, nil
ReturnSession(c) ==
    LET call == calls[c]
    IN  /\ call.pc = "cache"
        /\ sessionCache' = {s \in sessionCache : s.id # call.session.id}
                               \cup {call.session}
        /\ returned' = {r \in returned : r.dir # call.dir}
                           \cup {[dir |-> call.dir, session |-> call.session]}
        /\ calls' = [calls EXCEPT ![c] = Done(call)]
        /\ last' = [op |-> "GetOrCreateProjectSession", caller |-> c,
                    dir |-> call.dir, ok |-> TRUE, session |-> call.session]
        /\ UNCHANGED <<now, sessions, storeVars, projects, sessionRows>>

\* The feature names, and the id generateSessionID gives a feature session:
\* the prefix of the project, the type and eight digits of a new uuid
FeatureNames == {"f1"}
FeatureSessionID(parent, featureName) ==
    CASE parent.project_id[1] = "1a2b3c4d" -> "1a2b3c4d-feature-0f1e2d3c"
      [] parent.project_id[1] = "9f8e7d6c" -> "9f8e7d6c-feature-0f1e2d3c"

\* CreateFeatureSession for a parent session that GetSession finds in the
\* cache
CreateFeatureSession(featureName) ==
    \E parent \in sessionCache :
        LET session == [id |-> FeatureSessionID(parent, featureName),
                        project_id |-> parent.project_id, type |-> "feature",
                        status |-> "active", created_at |-> now,
                        last_active |-> now, working_dir |-> parent.working_dir]
        IN  /\ SessionForeignKeyOK(session)
            /\ session.id \notin {r.id : r \in sessionRows}
            /\ sessionRows' = InsertSession(sessionRows, session)
            /\ sessions' = sessions \cup {session.id}
            /\ last' = [op |-> "CreateFeatureSession"]
            /\ UNCHANGED <<now, storeVars, projects, sessionCache, calls,
                           returned>>

\* The strings a session is resolved from: the id of a main session, a
\* directory, a legacy session id with its database, a name that is not
\* shaped like a uuid but has a database file aimem_<name>.db, and a name
\* with none of these.
ResolveInputs ==
    {"1a2b3c4d-main", "/w/a", "6ba7b810-9dad-11d1-80b4-00c04fd430c8",
     "backup", "nosuch"}

\* strings.Contains(s, "/") || strings.Contains(s, "\\")
HasSeparator(s) == s \in Dirs

UUIDShaped(s) == s = "6ba7b810-9dad-11d1-80b4-00c04fd430c8"

\* os.Stat of ~/.aimem/aimem_<s>.db does not say the file does not exist
LegacyDbExists(s) == s \in {"6ba7b810-9dad-11d1-80b4-00c04fd430c8", "backup"}

\* GetSession: the cache, then table sessions
SessionsNamed(s) ==
    IF \E x \in sessionCache : x.id = s
    THEN {x \in sessionCache : x.id = s}
    ELSE {r \in sessionRows : r.id = s}

\* ResolveSession: the session of that id; else for a path
\* GetOrCreateProjectSession of it; else migrateLegacySession, which for a
\* legacy database that exists is GetOrCreateProjectSession of the current
\* directory; else an error.
ResolveSession(c, s) ==
    /\ Idle(c)
    /\ IF SessionsNamed(s) # {}
       THEN \E session \in SessionsNamed(s) :
                /\ sessionCache' = {x \in sessionCache : x.id # s} \cup {session}
                /\ last' = [op |-> "ResolveSession", caller |-> c, input |-> s,
                            outcome |-> "session"]
                /\ UNCHANGED calls
       ELSE IF HasSeparator(s) \/ LegacyDbExists(s)
       THEN /\ calls' = [calls EXCEPT ![c] =
                            [pc |-> "find",
                             dir |-> IF HasSeparator(s) THEN s ELSE Cwd,
                             project |-> DetectProject(IF HasSeparator(s) THEN s
                                                       ELSE Cwd),
                             created |-> FALSE]]
            /\ last' = [op |-> "ResolveSession", caller |-> c, input |-> s,
                        outcome |-> "GetOrCreateProjectSession"]
            /\ UNCHANGED sessionCache
       ELSE /\ last' = [op |-> "ResolveSession", caller |-> c, input |-> s,
                        outcome |-> "error"]
            /\ UNCHANGED <<calls, sessionCache>>
    /\ UNCHANGED <<now, sessions, storeVars, projects, sessionRows, returned>>

\* The manager called by one caller at a time
NextSession ==
    \/ Tick
    \/ \E dir \in Dirs : GetOrCreateProjectSession("a1", dir)
    \/ \E s \in ResolveInputs : ResolveSession("a1", s)
    \/ getOrCreateMainSession("a1")
    \/ CreateProject("a1")
    \/ CreateSessionRow("a1")
    \/ updateSessionActivity("a1")
    \/ ReturnSession("a1")
    \/ \E f \in FeatureNames : CreateFeatureSession(f)

SpecSession == Init /\ [][NextSession]_vars

\* The directories of one project
RepositoryDirs == {"/w/a", "/w/a/sub"}

\* The manager called by the callers at once, for one project
NextSessions ==
    \/ Tick
    \/ \E c \in Callers, dir \in RepositoryDirs : GetOrCreateProjectSession(c, dir)
    \/ \E c \in Callers : getOrCreateMainSession(c)
    \/ \E c \in Callers : CreateProject(c)
    \/ \E c \in Callers : CreateSessionRow(c)
    \/ \E c \in Callers : updateSessionActivity(c)
    \/ \E c \in Callers : ReturnSession(c)
    \/ \E f \in FeatureNames : CreateFeatureSession(f)

SpecSessions == Init /\ [][NextSessions]_vars

\* GetSession begins: the look into the cache under RLock; a session found
\* there is returned.
GetSession(c, sessionID) ==
    LET cached == {s \in sessionCache : s.id = sessionID}
    IN  /\ Idle(c)
        /\ calls' = [calls EXCEPT ![c] =
                        [pc |-> IF cached = {} THEN "load" ELSE "idle",
                         id |-> sessionID]]
        /\ last' = [op |-> "GetSession", caller |-> c, id |-> sessionID,
                    outcome |-> IF cached = {} THEN "miss" ELSE "cached"]
        /\ UNCHANGED <<now, sessions, storeVars, projects, sessionRows,
                       sessionCache, returned>>

\* loadSessionFromStorage; an error ends the call.
LoadSession(c) ==
    LET call == calls[c]
        rows == {r \in sessionRows : r.id = call.id}
    IN  /\ call.pc = "load"
        /\ IF rows = {}
           THEN calls' = [calls EXCEPT ![c] = Done(call)]
           ELSE \E r \in rows :
                    calls' = [calls EXCEPT ![c] =
                                 [pc |-> "cacheLoaded", id |-> call.id,
                                  session |-> r]]
        /\ last' = [op |-> "loadSessionFromStorage", caller |-> c,
                    id |-> call.id, found |-> rows # {}]
        /\ UNCHANGED <<now, sessions, storeVars, projects, sessionRows,
                       sessionCache, returned>>

\* sm.sessionCache[sessionID] = session; return session, nil
CacheLoaded(c) ==
    LET call == calls[c]
    IN  /\ call.pc = "cacheLoaded"
        /\ sessionCache' = {s \in sessionCache : s.id # call.id}
                               \cup {call.session}
        /\ calls' = [calls EXCEPT ![c] = Done(call)]
        /\ last' = [op |-> "GetSession", caller |-> c, id |-> call.id,
                    outcome |-> "loaded"]
        /\ UNCHANGED <<now, sessions, storeVars, projects, sessionRows,
                       returned>>

\* The ids GetSession is called with: of the main session of the project,
\* and of no session
GetSessionIDs == {"1a2b3c4d-main", "nosuch"}

\* The manager called by the callers at once to get the session of one
\* project, by its directory and by its id
NextCachedSessions ==
    \/ Tick
    \/ \E c \in Callers, dir \in RepositoryDirs : GetOrCreateProjectSession(c, dir)
    \/ \E c \in Callers : getOrCreateMainSession(c)
    \/ \E c \in Callers : CreateProject(c)
    \/ \E c \in Callers : CreateSessionRow(c)
    \/ \E c \in Callers : updateSessionActivity(c)
    \/ \E c \in Callers : ReturnSession(c)
    \/ \E c \in Callers, id \in GetSessionIDs : GetSession(c, id)
    \/ \E c \in Callers : LoadSession(c)
    \/ \E c \in Callers : CacheLoaded(c)

SpecCachedSessions == Init /\ [][NextCachedSessions]_vars

\* C29: once every call of the session manager is over, a session in the
\* session cache equals the row of table sessions with its id, under every
\* interleaving of GetOrCreateProjectSession and GetSession calls.
C29_CacheEqualsStorage ==
    (\A c \in Callers : Idle(c)) =>
        \A s \in sessionCache : \E r \in sessionRows : r = s

(***************************************************************************)
(* The sessions of a project                                               *)
(***************************************************************************)

RowIDs(rows) == {r.id : r \in rows}

\* C13: calls of GetOrCreateProjectSession for one working directory, one
\* after the other, return the same session id every time; a call for a
\* directory a session was returned for before adds no row to table
\* sessions; and last_active, of the session returned and of every row,
\* never decreases.
C13_SameSessionEveryCall ==
    [][/\ \A r \in returned, q \in returned' :
              r.dir = q.dir =>
                  /\ q.session.id = r.session.id
                  /\ q.session.last_active >= r.session.last_active
       /\ \A r \in sessionRows, q \in sessionRows' :
              r.id = q.id => q.last_active >= r.last_active
       /\ \A c \in Callers :
              (/\ calls'[c] # calls[c]
               /\ ~Idle(c)
               /\ \E r \in returned : r.dir = calls[c].dir)
                  => RowIDs(sessionRows') = RowIDs(sessionRows)]_vars

\* A later call for a directory has found the session made before and
\* returned it, its last_active moved on.
C13_Witness ==
    /\ last.op = "GetOrCreateProjectSession"
    /\ last.ok
    /\ ~calls[last.caller].created
    /\ last.session.last_active > last.session.created_at
    /\ \E r \in sessionRows :
           r.id = last.session.id /\ r.last_active = last.session.last_active

\* The main sessions of a project that are active
ActiveMainSessions(projectID) ==
    {r \in sessionRows :
        r.project_id = projectID /\ r.type = "main" /\ r.status = "active"}

\* C14: under every interleaving of GetOrCreateProjectSession calls for one
\* project, every call succeeds, the calls return the same session id, and
\* once the calls are over the project has exactly one active main session.
C14_OneMainSession ==
    /\ last.op = "GetOrCreateProjectSession" => last.ok
    /\ \A r, q \in returned :
           DetectProject(r.dir).ID = DetectProject(q.dir).ID
               => r.session.id = q.session.id
    /\ (\A c \in Callers : Idle(c)) =>
           \A r \in returned :
               Cardinality(ActiveMainSessions(DetectProject(r.dir).ID)) = 1

\* Two calls for one project have both made the main session, neither
\* having found the other's, and have returned.
C14_Witness ==
    /\ \A c \in Callers :
           Idle(c) /\ "created" \in DOMAIN calls[c] /\ calls[c].created
    /\ Cardinality(returned) = 2
    /\ Cardinality(ActiveMainSessions(DetectProject("/w/a").ID)) = 1

\* The string names no session, holds no path separator and is no legacy
\* session id with its database.
Unresolvable(s) ==
    /\ SessionsNamed(s) = {}
    /\ ~HasSeparator(s)
    /\ ~(UUIDShaped(s) /\ LegacyDbExists(s))

\* C15 as claimed: resolving a string that names no session, holds no path
\* separator and is no uuid-shaped legacy id with a legacy database fails,
\* and begins nothing that makes a session or a project.
C15_UnresolvableFails ==
    [][(last'.op = "ResolveSession" /\ Unresolvable(last'.input))
           => /\ last'.outcome = "error"
              /\ UNCHANGED <<calls, sessionRows, projects>>]_vars

(***************************************************************************)
(* The server: tools/call (handleStoreContext, handleRetrieveContext,      *)
(* handleSmartMemoryManager)                                               *)
(***************************************************************************)

\* The values of a JSON argument: absent, a string (an id or enum word s, or
\* a text), a number, a boolean
Absent == [t |-> "absent"]
JString(s) == [t |-> "string", s |-> s]
JText(x) == [t |-> "string", text |-> x]
JNumber(n) == [t |-> "number", n |-> n]
JBool(b) == [t |-> "bool", b |-> b]

\* v, ok := args[name].(string)
IsString(v) == v.t = "string"

ErrorCodeInvalidParams == -32602
ErrorCodeInternalError == -32603

\* mcp.NewErrorResponse(id, mcp.NewError(code, ...))
ErrorResponse(tool, args, code) ==
    [op |-> "tools/call", tool |-> tool, args |-> args, code |-> code,
     panic |-> FALSE, ids |-> <<>>]

\* mcp.NewResponse(id, ...) of retrieve_context with the chunks of ids
Response(tool, args, ids) ==
    [op |-> "tools/call", tool |-> tool, args |-> args, code |-> 0,
     panic |-> FALSE, ids |-> ids]

\* A handler that panicked: no response is written
Panicked(tool, args) ==
    [op |-> "tools/call", tool |-> tool, args |-> args, code |-> 0,
     panic |-> TRUE, ids |-> <<>>]

\* embedding.Service.CosineSimilarity, times 100
CosineSimilarity(a, b) ==
    IF Len(a.v) # Len(b.v) THEN 0
    ELSE LET normA == Dot(a.v, a.v, Len(a.v))
             normB == Dot(b.v, b.v, Len(b.v))
         IN  IF normA = 0 \/ normB = 0 THEN 0
             ELSE (Dot(a.v, b.v, Len(a.v)) * 100) \div (Isqrt(normA) * Isqrt(normB))

\* The unit of a retrieval score: 1.0 is ScoreOne, which makes a second of
\* age one unit of the recency term (0.1 / (168 * 3600) of 1.0).
ScoreOne == 6048000

\* calculateRetrievalScore: 0.6 similarity + 0.2 importance + 0.1 recency +
\* 0.1 relevance, at most 1.0
calculateRetrievalScore(similarity, c) ==
    LET importanceScore == CASE c.Importance = "high" -> 10
                             [] c.Importance = "medium" -> 7
                             [] c.Importance = "low" -> 3
                             [] OTHER -> 0
        age == now - c.Timestamp
        recency == IF age > 168 * SecondsPerHour THEN 0
                   ELSE 168 * SecondsPerHour - age
        score == similarity * 36288 + importanceScore * 120960 + recency
                     + c.Relevance * 6048
    IN  Min(score, ScoreOne)

ScoreAbove(x, y) == x.Score > y.Score

\* retrieveContext as handleRetrieveContext calls it; nothing is stored.
retrieveContext(tool, args, sessionID, query, maxChunks) ==
    \E e \in {GenerateEmbedding(query)} :
        IF e.err THEN last' = ErrorResponse(tool, args, ErrorCodeInternalError)
        ELSE \E rows \in QueryOrders(sessionID) :
             \E allChunks \in {SearchResult(rows, NilEmbedding, MaxResultsAll)} :
             \E scores \in {[i \in 1..Len(allChunks) |->
                               [Chunk |-> allChunks[i],
                                Score |-> calculateRetrievalScore(
                                    CosineSimilarity(e.embedding,
                                                     allChunks[i].Embedding),
                                    allChunks[i])]]} :
             \E sorted \in SortSlice(scores, ScoreAbove) :
                 LET limit == Min(maxChunks, Len(sorted))
                 IN  last' = IF Len(allChunks) = 0 THEN Response(tool, args, <<>>)
                             ELSE IF limit < 0 THEN Panicked(tool, args)
                             ELSE Response(tool, args,
                                           [i \in 1..limit |-> sorted[i].Chunk.ID])

\* The arguments retrieve_context is called with
RetrieveCall(session_id, query, max_chunks) ==
    [session_id |-> session_id, query |-> query, max_chunks |-> max_chunks]

RetrieveArgs ==
    { RetrieveCall(JString("s1"), JText(TextA), Absent),
      RetrieveCall(JString("s1"), JText(TextA), JNumber(2)),
      RetrieveCall(JString("s1"), JText(TextA), JNumber(0)),
      RetrieveCall(JString("s1"), JText(TextA), JNumber(25)),
      RetrieveCall(JString("s1"), JText(TextA), JNumber(-1)),
      RetrieveCall(JString("s1"), JText(TextA), JString("two")),
      RetrieveCall(JString("s1"), JText(NoText), JNumber(2)),
      RetrieveCall(JString("s1"), Absent, JNumber(2)),
      RetrieveCall(JNumber(7), JText(TextA), JNumber(2)) }

handleRetrieveContext(args) ==
    /\ IF ~IsString(args.session_id) \/ ~IsString(args.query)
       THEN last' = ErrorResponse("retrieve_context", args, ErrorCodeInvalidParams)
       ELSE retrieveContext("retrieve_context", args, args.session_id.s,
                            args.query.text,
                            IF args.max_chunks.t = "number"
                            THEN args.max_chunks.n ELSE 5)
    /\ UNCHANGED <<components, now, ttlDefault, chunkSize, rpc, issued, limiter, sessions,
                   chunks, sessionStats, putLog>>

\* The arguments store_context is called with
StoreCall(session_id, content, importance) ==
    [session_id |-> session_id, content |-> content, importance |-> importance]

StoreArgs ==
    { StoreCall(JString("s1"), JText(TextA), JString("low")),
      StoreCall(JString("s1"), JText(TextC), JString("high")),
      StoreCall(JString("s1"), JText(NoText), JString("low")),
      StoreCall(JString("s1"), JText(TextA), JString("urgent")),
      StoreCall(JString("s1"), JText(TextA), JBool(TRUE)),
      StoreCall(JString("s1"), JNumber(1), JString("low")),
      StoreCall(Absent, JText(TextA), JString("low")) }

\* handleStoreContext: a call that passes the checks is storeContext.
handleStoreContext(args) ==
    IF \/ ~IsString(args.session_id) \/ ~IsString(args.content)
       \/ ~IsString(args.importance)
       \/ args.importance.s \notin {"low", "medium", "high"}
    THEN /\ last' = ErrorResponse("store_context", args, ErrorCodeInvalidParams)
         /\ UNCHANGED <<components, now, ttlDefault, chunkSize, issued, limiter, sessions,
                        chunks, sessionStats, putLog>>
    ELSE storeContext(args.session_id.s, args.content.text, args.importance.s)

\* The arguments smart_memory_manager is called with
SmartCall(session_phase, memory_strategy, preserve_important) ==
    [session_id |-> JString("s1"), session_phase |-> session_phase,
     memory_strategy |-> memory_strategy,
     preserve_important |-> preserve_important]

SmartArgs ==
    { SmartCall(JString("testing"), JString("aggressive"), Absent),
      SmartCall(JString("testing"), JString("conservative"), JString("no")),
      SmartCall(JString("bogus"), JString("aggressive"), JBool(FALSE)),
      SmartCall(JString("testing"), JString("bogus"), Absent),
      SmartCall(JNumber(1), JString("aggressive"), Absent),
      SmartCall(JString("testing"), Absent, Absent) }

\* handleSmartMemoryManager: a call whose three strings are strings is
\* applySmartMemoryStrategy (GetSessionSummary gives an empty summary for a
\* session without statistics).
handleSmartMemoryManager(args) ==
    IF \/ ~IsString(args.session_id) \/ ~IsString(args.session_phase)
       \/ ~IsString(args.memory_strategy)
    THEN /\ last' = ErrorResponse("smart_memory_manager", args,
                                  ErrorCodeInvalidParams)
         /\ UNCHANGED <<components, now, ttlDefault, chunkSize, rpc, issued, limiter, sessions,
                        chunks, sessionStats, putLog>>
    ELSE smartMemoryManager(args.session_id.s, args.session_phase.s,
                            args.memory_strategy.s,
                            IF args.preserve_important.t = "bool"
                            THEN args.preserve_important.b ELSE TRUE)

NextTools ==
    \/ Tick
    \/ \E s \in ServerSessions : CreateSession(s)
    \/ \E args \in StoreArgs : handleStoreContext(args) /\ UNCHANGED rpc
    \/ \E args \in RetrieveArgs : handleRetrieveContext(args)
    \/ \E args \in SmartArgs : handleSmartMemoryManager(args)

SpecTools == InitServer /\ [][NextTools]_vars

(***************************************************************************)
(* The server: the request loop (HandleRequest, processRequest,            *)
(* handleToolCall)                                                         *)
(*                                                                         *)
(* The input is a stream of JSON values.  The id of a request is its       *)
(* position in the stream.  Of the tools the stream calls store_context.   *)
(* Writes to the output succeed.                                           *)
(***************************************************************************)

ErrorCodeParseError == -32700
ErrorCodeMethodNotFound == -32601

\* A value the decoder fails on, and a request with a method and params
Malformed == [kind |-> "malformed"]
Request(method, params) ==
    [kind |-> "request", method |-> method, params |-> params]

\* The params of a tools/call: an object with a name and arguments
JObject(name, arguments) ==
    [t |-> "object", name |-> name, arguments |-> arguments]
ToolArguments(args) == [t |-> "object", args |-> args]

StreamItems ==
    { Malformed,
      Request("initialize", Absent),
      Request("tools/list", Absent),
      Request("resources/list", Absent),
      Request("tools/call", JString("store_context")),
      Request("tools/call", JObject(Absent, Absent)),
      Request("tools/call", JObject(JString("store_context"), Absent)),
      Request("tools/call", JObject(JString("forget"), ToolArguments(<<>>))),
      Request("tools/call",
              JObject(JString("store_context"),
                      ToolArguments(StoreCall(JString("s1"), JText(TextA),
                                              JString("low"))))),
      Request("tools/call",
              JObject(JString("store_context"),
                      ToolArguments(StoreCall(JString("s1"), JText(NoText),
                                              JString("low"))))),
      Request("tools/call",
              JObject(JString("store_context"),
                      ToolArguments(StoreCall(JString("s1"), JText(TextA),
                                              JString("urgent"))))) }

\* The longest stream read
MaxStream == 3

\* The server with a session, and HandleRequest called on a stream
InitRequests ==
    /\ ComponentsInit
    /\ now = 0
    /\ ttlDefault = 0
    /\ chunkSize = ChunkSize
    /\ issued = 0
    /\ limiter = NewResponseLimiter
    /\ sessions = {"s1"}
    /\ chunks = {}
    /\ sessionStats = {}
    /\ putLog = [id \in ChunkIDs |-> NotFound]
    /\ last = [op |-> "none"]
    /\ \E input \in SeqsUpTo(StreamItems, MaxStream) :
          rpc = [input |-> input, pos |-> 1, out |-> <<>>, state |-> "running"]

\* handleToolCall routes the request to handleStoreContext
RoutedToStoreContext(req) ==
    /\ req.method = "tools/call"
    /\ req.params.t = "object"
    /\ IsString(req.params.name)
    /\ req.params.arguments.t = "object"
    /\ req.params.name.s = "store_context"

\* handleToolCall for a request it does not route to a handler: the code of
\* its response
handleToolCall(req) ==
    IF req.params.t # "object" THEN ErrorCodeInvalidParams
    ELSE IF ~IsString(req.params.name) THEN ErrorCodeInvalidParams
    ELSE IF req.params.arguments.t # "object" THEN ErrorCodeInvalidParams
    ELSE ErrorCodeMethodNotFound

\* processRequest for a request that reaches no tool handler: the code of
\* its response, 0 for a result
processRequest(req) ==
    CASE req.method = "tools/list" -> 0
      [] req.method = "tools/call" -> handleToolCall(req)
      [] req.method = "initialize" -> 0
      [] OTHER -> ErrorCodeMethodNotFound

\* encoder.Encode(resp) of the response to the request read, with its id
Written(code) ==
    [rpc EXCEPT !.out = Append(@, [id |-> rpc.pos, code |-> code]),
                !.pos = @ + 1]

\* The code of the response handleStoreContext returned
StoreContextCode(result) ==
    IF result.op = "storeContext"
    THEN (IF result.ok THEN 0 ELSE ErrorCodeInternalError)
    ELSE result.code

\* One turn of the loop of HandleRequest: at io.EOF it returns; on a value
\* that does not decode it writes the parse error and returns; a request is
\* processed and its response written.  A panic of a handler ends the
\* process.
HandleRequest ==
    /\ rpc.state = "running"
    /\ IF rpc.pos > Len(rpc.input)
       THEN /\ rpc' = [rpc EXCEPT !.state = "returned"]
            /\ last' = [op |-> "HandleRequest", read |-> "EOF"]
            /\ UNCHANGED <<components, now, ttlDefault, chunkSize, issued,
                           limiter, sessions, chunks, sessionStats, putLog>>
       ELSE IF rpc.input[rpc.pos].kind = "malformed"
       THEN /\ rpc' = [rpc EXCEPT !.out = Append(@, [id |-> "null",
                                                     code |-> ErrorCodeParseError]),
                                  !.state = "returned"]
            /\ last' = [op |-> "HandleRequest", read |-> "error"]
            /\ UNCHANGED <<components, now, ttlDefault, chunkSize, issued,
                           limiter, sessions, chunks, sessionStats, putLog>>
       ELSE IF RoutedToStoreContext(rpc.input[rpc.pos])
       THEN /\ handleStoreContext(rpc.input[rpc.pos].params.arguments.args)
            /\ rpc' = IF last'.panic THEN [rpc EXCEPT !.state = "crashed"]
                      ELSE Written(StoreContextCode(last'))
       ELSE /\ rpc' = Written(processRequest(rpc.input[rpc.pos]))
            /\ last' = [op |-> "processRequest",
                        method |-> rpc.input[rpc.pos].method,
                        code |-> processRequest(rpc.input[rpc.pos])]
            /\ UNCHANGED <<components, now, ttlDefault, chunkSize, issued,
                           limiter, sessions, chunks, sessionStats, putLog>>

SpecRequests == InitRequests /\ [][HandleRequest]_vars

\* C40: once the server is through with an input stream, every request of
\* the stream has exactly one response with its id, the responses stand in
\* the order of the requests, and every value that is no request has a
\* parse error (-32700) in its place.
C40_OneResponseEach ==
    rpc.state \in {"returned", "crashed"}
        => /\ Len(rpc.out) = Len(rpc.input)
           /\ \A i \in 1..Len(rpc.input) :
                  IF rpc.input[i].kind = "malformed"
                  THEN rpc.out[i].code = ErrorCodeParseError
                  ELSE rpc.out[i].id = i

(***************************************************************************)
(* Arguments of a tools/call                                               *)
(***************************************************************************)

\* The argument is there and is not of the type the tool declares for it.
WrongType(v, type) == v.t # "absent" /\ v.t # type

\* An argument of the call has the wrong type, lies outside its declared
\* range or is no value of its enum; a required argument is missing.
InvalidArguments(tool, args) ==
    CASE tool = "retrieve_context" ->
           \/ ~IsString(args.session_id) \/ ~IsString(args.query)
           \/ WrongType(args.max_chunks, "number")
           \/ args.max_chunks.t = "number" /\ args.max_chunks.n \notin 1..20
      [] tool = "store_context" ->
           \/ ~IsString(args.session_id) \/ ~IsString(args.content)
           \/ ~IsString(args.importance)
           \/ args.importance.s \notin {"low", "medium", "high"}
      [] tool = "smart_memory_manager" ->
           \/ ~IsString(args.session_id) \/ ~IsString(args.session_phase)
           \/ ~IsString(args.memory_strategy)
           \/ WrongType(args.preserve_important, "bool")
           \/ args.session_phase.s \notin
                  {"analysis", "development", "testing", "deployment"}
           \/ args.memory_strategy.s \notin MemoryStrategies
      [] OTHER -> FALSE

\* C16 as claimed: a tools/call with an argument of the wrong type, out of
\* its range or outside its enum is answered with error -32602 and changes
\* no stored chunk or session; no memory management runs under a strategy
\* that is no value of the enum.
C16_InvalidArgumentsRejected ==
    [][/\ (last'.op = "tools/call" /\ InvalidArguments(last'.tool, last'.args))
              => /\ last'.code = ErrorCodeInvalidParams
                 /\ ~last'.panic
                 /\ UNCHANGED <<chunks, sessions>>
       /\ last'.op = "smartMemoryManager"
              => last'.strategy \in MemoryStrategies]_vars

\* C17 as claimed: retrieve_context with the empty query returns an empty
\* result and no error, whatever the session holds.
C17_EmptyQueryEmptyResult ==
    (/\ last.op = "tools/call"
     /\ last.tool = "retrieve_context"
     /\ IsString(last.args.session_id)
     /\ last.args.query = JText(NoText))
        => last.code = 0 /\ ~last.panic /\ last.ids = <<>>

\* C39: store_context called with the empty content is answered with a
\* response, a result or an error, and stores no chunk; the server goes on
\* to the next request.
C39_EmptyContentAnswered ==
    [][(last'.op = "storeContext" /\ last'.content = NoText)
          => (~last'.panic /\ chunks' = chunks)]_vars

(***************************************************************************)
(* The embedding cache (EmbeddingCache of the embedding service)           *)
(***************************************************************************)

\* What a step of the cache or of the circuit breaker keeps
restVars == <<ttlDefault, chunkSize, rpc, issued, limiter, sessions, chunks, sessionStats, putLog,
              managerVars, retryVars, monitorVars>>

\* config.CacheSize
CacheSize == 2

\* The contents embedded, and their vectors
CacheKeys == {"k1", "k2", "k3", "k4"}
CacheValues == {EmbX, EmbY}

\* The log of accesses after one more: the key is its last entry
Accessed(entries, key) ==
    Append(SelectSeq(entries, LAMBDA k : k # key), key)

\* The list without its first entry equal to key, if any
RECURSIVE RemoveFirst(_, _)
RemoveFirst(order, key) ==
    IF order = << >> THEN << >>
    ELSE IF Head(order) = key THEN Tail(order)
    ELSE <<Head(order)>> \o RemoveFirst(Tail(order), key)

\* An access that leaves the list as it is
keepOrder(order, key) == order

moveToFront(order, key) == <<key>> \o RemoveFirst(order, key)

\* delete(c.cache, key)
DeleteKey(c, key) == [k \in DOMAIN c \ {key} |-> c[k]]

\* c.cache[key] = entry
PutKey(c, key, embedding) ==
    [k \in DOMAIN c \cup {key} |-> IF k = key THEN embedding ELSE c[k]]

\* An eviction that shortens the list and leaves the map as it is
evictOrderOnly(c, order) ==
    IF Len(order) = 0 THEN [cache |-> c, lruOrder |-> order]
    ELSE [cache |-> c, lruOrder |-> SubSeq(order, 1, Len(order) - 1)]

\* evictLRU: the last key leaves the list and the map
evictLRU(c, order) ==
    IF Len(order) = 0 THEN [cache |-> c, lruOrder |-> order]
    ELSE [cache |-> DeleteKey(c, order[Len(order)]),
          lruOrder |-> SubSeq(order, 1, Len(order) - 1)]

\* A caller enters Get(key) or Set(key, embedding) and comes to c.mu.Lock()
CacheCall(t, op, key, embedding) ==
    /\ workers[t].pc = "idle"
    /\ workers' = [workers EXCEPT ![t] =
                      [pc |-> "lock", op |-> op, key |-> key,
                       embedding |-> embedding, evicted |-> FALSE]]
    /\ last' = [op |-> "CacheCall", caller |-> t]
    /\ UNCHANGED <<now, restVars, cache, lruOrder, mu, accessLog, breakerVars>>

\* c.mu.Lock()
CacheLock(t) ==
    /\ workers[t].pc = "lock"
    /\ mu = "free"
    /\ mu' = t
    /\ workers' = [workers EXCEPT ![t].pc = "body"]
    /\ last' = [op |-> "Lock", caller |-> t]
    /\ UNCHANGED <<now, restVars, cache, lruOrder, accessLog, breakerVars>>

\* Get under the lock, and the deferred Unlock
CacheGet(t) ==
    LET w == workers[t]
        exists == w.key \in DOMAIN cache
    IN  /\ w.pc = "body" /\ w.op = "Get" /\ mu = t
        /\ lruOrder' = IF exists THEN moveToFront(lruOrder, w.key) ELSE lruOrder
        /\ accessLog' = IF exists THEN Accessed(accessLog, w.key)
                        ELSE accessLog
        /\ mu' = "free"
        /\ workers' = [workers EXCEPT ![t].pc = "idle"]
        /\ last' = [op |-> "Get", caller |-> t, key |-> w.key,
                    embedding |-> IF exists THEN cache[w.key] ELSE NilEmbedding]
        /\ UNCHANGED <<now, restVars, cache, breakerVars>>

\* Set under the lock as far as the test len(c.cache) > c.maxSize; a key that
\* exists is updated and Set returns.
CacheSet(t) ==
    LET w == workers[t]
        exists == w.key \in DOMAIN cache
        added == PutKey(cache, w.key, w.embedding)
        over == ~exists /\ Cardinality(DOMAIN added) > CacheSize
    IN  /\ w.pc = "body" /\ w.op = "Set" /\ mu = t
        /\ cache' = added
        /\ lruOrder' = IF exists THEN moveToFront(lruOrder, w.key)
                       ELSE <<w.key>> \o lruOrder
        /\ accessLog' = Accessed(accessLog, w.key)
        /\ mu' = IF over THEN mu ELSE "free"
        /\ workers' = [workers EXCEPT ![t].pc = IF over THEN "evict" ELSE "idle"]
        /\ last' = [op |-> "Set", caller |-> t, key |-> w.key]
        /\ UNCHANGED <<now, restVars, breakerVars>>

\* c.evictLRU() at the end of Set, and the deferred Unlock
CacheEvict(t) ==
    LET e == evictLRU(cache, lruOrder)
    IN  /\ workers[t].pc = "evict" /\ mu = t
        /\ cache' = e.cache
        /\ lruOrder' = e.lruOrder
        /\ mu' = "free"
        /\ workers' = [workers EXCEPT ![t].pc = "idle", ![t].evicted = TRUE]
        /\ accessLog' = SelectSeq(accessLog, LAMBDA k : k \in DOMAIN e.cache)
        /\ last' = [op |-> "evictLRU", caller |-> t]
        /\ UNCHANGED <<now, restVars, breakerVars>>

NextCache ==
    \/ \E t \in Callers, key \in CacheKeys : CacheCall(t, "Get", key, NilEmbedding)
    \/ \E t \in Callers, key \in CacheKeys, e \in CacheValues :
          CacheCall(t, "Set", key, e)
    \/ \E t \in Callers : CacheLock(t)
    \/ \E t \in Callers : CacheGet(t)
    \/ \E t \in Callers : CacheSet(t)
    \/ \E t \in Callers : CacheEvict(t)

SpecCache == Init /\ [][NextCache]_vars

\* C19: whenever no call holds the cache's mutex, the cache holds at most
\* cache_size entries and its LRU list holds exactly the keys of the map,
\* each once; inside Set, under the mutex, the map is at most one over.
C19_CacheBounded ==
    /\ Cardinality(DOMAIN cache) <= CacheSize + 1
    /\ mu = "free" =>
           /\ Cardinality(DOMAIN cache) <= CacheSize
           /\ Range(lruOrder) = DOMAIN cache
           /\ Len(lruOrder) = Cardinality(DOMAIN cache)

\* A Set has evicted a key from the full cache while the other caller waits
\* for the mutex.
C19_Witness ==
    /\ mu = "free"
    /\ Cardinality(DOMAIN cache) = CacheSize
    /\ \E t \in Callers :
           /\ workers[t].pc = "idle" /\ "evicted" \in DOMAIN workers[t]
           /\ workers[t].evicted
           /\ \E u \in Callers \ {t} : workers[u].pc = "lock"

\* The keys of the set keys that were accessed before every other of them
LeastRecentlyAccessed(keys) ==
    {k \in keys :
        \E i \in DOMAIN accessLog :
            /\ accessLog[i] = k
            /\ \A j \in DOMAIN accessLog :
                   (accessLog[j] \in keys /\ accessLog[j] # k) => i < j}

\* C30: the eviction that ends a Set of a new key into a full cache takes
\* exactly one entry out of the cache, the one whose latest access, a Get
\* that found it or a Set, lies furthest back; and a Set leaves without an
\* eviction only when the cache is not over its size.
C30_EvictsLeastRecentlyAccessed ==
    [][\A t \in Callers :
           /\ (workers[t].pc = "evict" /\ workers'[t].pc = "idle")
                  => /\ Cardinality(DOMAIN cache) = CacheSize + 1
                     /\ DOMAIN cache' \subseteq DOMAIN cache
                     /\ Cardinality(DOMAIN cache \ DOMAIN cache') = 1
                     /\ DOMAIN cache \ DOMAIN cache'
                            = LeastRecentlyAccessed(DOMAIN cache)
           /\ (workers[t].pc = "body" /\ workers'[t].pc = "idle")
                  => Cardinality(DOMAIN cache') <= CacheSize]_vars

\* A Set into the full cache has evicted a key, and the key the other
\* caller's Get found before it has stayed.
C30_Witness ==
    /\ last.op = "evictLRU"
    /\ Cardinality(DOMAIN cache) = CacheSize
    /\ \E t \in Callers, u \in Callers :
           /\ t # u
           /\ workers[t].pc = "idle" /\ "evicted" \in DOMAIN workers[t]
           /\ workers[t].evicted
           /\ workers[u].pc = "idle" /\ "op" \in DOMAIN workers[u]
           /\ workers[u].op = "Get"
           /\ workers[u].key \in DOMAIN cache
           /\ accessLog[1] = workers[u].key

(***************************************************************************)
(* The circuit breaker (CircuitBreaker of the errors package)              *)
(***************************************************************************)

\* The parameters a breaker is made with
MaxFailuresBound == 3
BreakerTimeouts == {0, 1, 2}

\* The breaker trips at every failure, whatever the count
TripsAlways(failures, maxFailures) == TRUE

\* cb.failures >= cb.maxFailures
Trips(failures, maxFailures) == failures >= maxFailures

\* A breaker is made in place of the one before.
MakeBreaker(maxFailures, resetTimeout) ==
    /\ breaker' = NewCircuitBreaker(maxFailures, resetTimeout)
    /\ streak' = 0
    /\ last' = [op |-> "NewCircuitBreaker"]
    /\ UNCHANGED <<now, restVars, cacheVars, breakerCalls>>

\* The reset timeout counts as elapsed at once
ResetElapsedAtOnce(since, resetTimeout) == TRUE

\* time.Since(cb.lastFailTime) > cb.resetTimeout
ResetElapsed(since, resetTimeout) == since > resetTimeout

\* CircuitBreaker.Call(fn), fn returning an error (failed) or nil
Call(failed) ==
    LET rejected == /\ breaker.state = "open"
                    /\ ~ResetElapsed(now - breaker.lastFailTime,
                                     breaker.resetTimeout)
        failures == breaker.failures + 1
    IN  /\ breaker' =
               IF rejected THEN breaker
               ELSE IF failed
               THEN [breaker EXCEPT
                        !.failures = failures,
                        !.lastFailTime = now,
                        !.state = IF Trips(failures, breaker.maxFailures)
                                  THEN "open"
                                  ELSE IF breaker.state = "open"
                                  THEN "half_open" ELSE @]
               ELSE [breaker EXCEPT !.failures = 0, !.state = "closed"]
        /\ streak' = IF rejected THEN streak
                     ELSE IF failed THEN Min(streak + 1, MaxFailuresBound + 1)
                     ELSE 0
        /\ last' = [op |-> "Call", executed |-> ~rejected,
                    failed |-> rejected \/ failed, was |-> breaker.state,
                    code |-> IF rejected THEN "CAPACITY_ERROR"
                             ELSE IF failed THEN "fn" ELSE "nil",
                    since |-> now - breaker.lastFailTime]
        /\ UNCHANGED <<now, restVars, cacheVars, breakerCalls>>

NextBreaker ==
    \/ Tick
    \/ \E maxFailures \in 1..MaxFailuresBound, resetTimeout \in BreakerTimeouts :
          MakeBreaker(maxFailures, resetTimeout)
    \/ \E failed \in BOOLEAN : Call(failed)

SpecBreaker == Init /\ [][NextBreaker]_vars

\* C20: the breaker is open exactly while max_failures or more executions
\* in a row have failed; from closed it opens at the failure that makes the
\* run max_failures long, and a call that succeeds leaves it closed with
\* the count at zero.
C20_OpensAtMaxFailures ==
    [][/\ breaker'.state = "open" <=> streak' >= breaker'.maxFailures
       /\ (breaker.state = "closed" /\ breaker'.state = "open")
              => /\ streak' = breaker.maxFailures
                 /\ streak = breaker.maxFailures - 1
                 /\ last'.op = "Call" /\ last'.failed
       /\ (last'.op = "Call" /\ ~last'.failed)
              => /\ breaker'.failures = 0
                 /\ breaker'.state = "closed"
                 /\ streak' = 0]_vars

\* A closed breaker made for more than one failure has opened at the last
\* of max_failures failures in a row.
C20_Witness ==
    /\ breaker.maxFailures > 1
    /\ breaker.state = "open"
    /\ streak = breaker.maxFailures
    /\ last.op = "Call" /\ last.executed /\ last.was = "closed"

\* C21: a Call made while the breaker is open and less than reset_timeout
\* has passed since the last failure does not run the function, returns the
\* capacity error and leaves the breaker as it is.
C21_OpenRejects ==
    [][(/\ breaker.state = "open"
        /\ now - breaker.lastFailTime < breaker.resetTimeout
        /\ last'.op = "Call")
           => /\ ~last'.executed
              /\ last'.code = "CAPACITY_ERROR"
              /\ breaker' = breaker
              /\ streak' = streak]_vars

\* A Call was turned away a second after the failure that opened the
\* breaker, the reset timeout being longer.
C21_Witness ==
    /\ last.op = "Call"
    /\ ~last.executed
    /\ last.code = "CAPACITY_ERROR"
    /\ last.since > 0
    /\ last.since < breaker.resetTimeout
    /\ breaker.state = "open"

(***************************************************************************)
(* The circuit breaker called by several callers at once                   *)
(***************************************************************************)

\* Call as far as fn: an open breaker whose reset timeout has passed goes
\* half-open, one whose timeout has not passed returns the capacity error;
\* the struct has no mutex, so the callers' steps interleave.
CallEnter(t) ==
    LET rejected == /\ breaker.state = "open"
                    /\ ~ResetElapsed(now - breaker.lastFailTime,
                                     breaker.resetTimeout)
    IN  /\ breakerCalls[t].pc = "idle"
        /\ breaker' = IF breaker.state = "open" /\ ~rejected
                      THEN [breaker EXCEPT !.state = "half_open"]
                      ELSE breaker
        /\ breakerCalls' = [breakerCalls EXCEPT ![t] =
                               [pc |-> IF rejected THEN "idle" ELSE "fn",
                                was |-> breaker.state]]
        /\ last' = [op |-> "Call", caller |-> t, executed |-> ~rejected,
                    was |-> breaker.state,
                    code |-> IF rejected THEN "CAPACITY_ERROR" ELSE "running"]
        /\ UNCHANGED <<now, restVars, cacheVars, streak>>

\* fn returns in Call, with an error (failed) or nil, and Call with it
CallReturn(t, failed) ==
    LET failures == breaker.failures + 1
    IN  /\ breakerCalls[t].pc = "fn"
        /\ breaker' =
               IF failed
               THEN [breaker EXCEPT
                        !.failures = failures,
                        !.lastFailTime = now,
                        !.state = IF Trips(failures, breaker.maxFailures)
                                  THEN "open" ELSE @]
               ELSE [breaker EXCEPT !.failures = 0, !.state = "closed"]
        /\ streak' = IF failed THEN Min(streak + 1, MaxFailuresBound + 1) ELSE 0
        /\ breakerCalls' = [breakerCalls EXCEPT ![t].pc = "idle"]
        /\ last' = [op |-> "Call", caller |-> t, executed |-> TRUE,
                    was |-> breakerCalls[t].was,
                    code |-> IF failed THEN "fn" ELSE "nil"]
        /\ UNCHANGED <<now, restVars, cacheVars>>

\* A breaker is made while no call is under way
MakeBreakerIdle(maxFailures, resetTimeout) ==
    /\ \A t \in Callers : breakerCalls[t].pc = "idle"
    /\ MakeBreaker(maxFailures, resetTimeout)

NextBreakers ==
    \/ Tick
    \/ \E maxFailures \in 1..MaxFailuresBound, resetTimeout \in BreakerTimeouts :
          MakeBreakerIdle(maxFailures, resetTimeout)
    \/ \E t \in Callers : CallEnter(t)
    \/ \E t \in Callers, failed \in BOOLEAN : CallReturn(t, failed)

SpecBreakers == Init /\ [][NextBreakers]_vars

\* The callers whose call runs fn, admitted when the breaker was not closed
Probes ==
    {t \in Callers : breakerCalls[t].pc = "fn" /\ breakerCalls[t].was # "closed"}

\* C31: once reset_timeout has passed in open, exactly one call is let
\* through as the probe, also when several callers call the breaker at
\* once: no two calls admitted by a breaker that was open or half-open run
\* fn at the same time, and the probe's outcome alone sets the next state,
\* closed after success and open after failure.
C31_OneProbe ==
    /\ Cardinality(Probes) <= 1
    /\ (last.op = "Call" /\ last.executed /\ last.was # "closed"
            /\ last.code = "nil") => breaker.state = "closed"
    /\ (last.op = "Call" /\ last.executed /\ last.was # "closed"
            /\ last.code = "fn") => breaker.state = "open"

(***************************************************************************)
(* The retry helper (Retry of the errors package)                          *)
(***************************************************************************)

\* What a step of Retry keeps
retryRest == <<now, ttlDefault, chunkSize, rpc, issued, limiter, sessions, chunks, sessionStats, putLog,
               managerVars, cacheVars, breakerVars, monitorVars>>

\* What fn returns: nil, an AiMemError of a code, or an error of another type
FnResults ==
    {"nil", "VALIDATION_ERROR", "NOT_FOUND", "STORAGE_ERROR", "CAPACITY_ERROR",
     "TIMEOUT_ERROR", "plain"}

\* Every code is retried
isRetryableAll(code) == TRUE

\* isRetryable
isRetryable(code) ==
    CASE code \in {"TIMEOUT_ERROR", "NETWORK_ERROR", "RATE_LIMIT_ERROR",
                   "CAPACITY_ERROR"} -> TRUE
      [] code \in {"DATABASE_ERROR", "REDIS_ERROR"} -> TRUE
      [] code \in {"VALIDATION_ERROR", "NOT_FOUND", "UNAUTHORIZED"} -> FALSE
      [] OTHER -> FALSE

\* IsRetryable(err): the Retryable of an AiMemError, false for other errors
IsRetryable(err) == IF err = "plain" THEN FALSE ELSE isRetryable(err)

\* The calls of Retry: attempts and base delay (seconds)
MaxAttemptsBound == 3
BaseDelays == {0, 1, 20}

\* 30 * time.Second
MaxDelay == 30

\* delay := time.Duration(attempt) * baseDelay, at most 30 s
BackoffDelay(attempt, baseDelay) ==
    IF attempt * baseDelay > MaxDelay THEN MaxDelay ELSE attempt * baseDelay

\* Retry(ctx, maxAttempts, baseDelay, fn) is called with a live context.
RetryStart(maxAttempts, baseDelay) ==
    /\ retry.pc \in {"idle", "done"}
    /\ retry' = [pc |-> "call", attempt |-> 1, maxAttempts |-> maxAttempts,
                 baseDelay |-> baseDelay, results |-> << >>, delays |-> << >>,
                 cancelledAt |-> 0, returned |-> "none", cause |-> "none"]
    /\ ctxDone' = FALSE
    /\ last' = [op |-> "Retry"]
    /\ UNCHANGED retryRest

\* What Retry returns
RetryDone(r, code, cause) ==
    [r EXCEPT !.pc = "done", !.returned = code, !.cause = cause]

\* err := fn() and what the loop does with it, as far as the select
RetryInvoke(err) ==
    LET r == [retry EXCEPT !.results = Append(@, err)]
    IN  /\ retry.pc = "call"
        /\ retry' =
               IF err = "nil" THEN RetryDone(r, "nil", "nil")
               ELSE IF ~IsRetryable(err) THEN RetryDone(r, err, err)
               ELSE IF retry.attempt = retry.maxAttempts
               THEN RetryDone(r, "INTERNAL_ERROR", err)
               ELSE [r EXCEPT !.pc = "wait",
                              !.delays = Append(@, BackoffDelay(retry.attempt,
                                                               retry.baseDelay))]
        /\ last' = [op |-> "fn", result |-> err]
        /\ UNCHANGED <<retryRest, ctxDone>>

\* The context is cancelled.
Cancel ==
    /\ retry.pc \in {"call", "wait"}
    /\ ~ctxDone
    /\ ctxDone' = TRUE
    /\ retry' = IF retry.pc = "wait"
                THEN [retry EXCEPT !.cancelledAt = Len(retry.results)]
                ELSE retry
    /\ last' = [op |-> "cancel"]
    /\ UNCHANGED retryRest

\* case <-time.After(delay): continue.  The timer wins the select when the
\* context is live, or when the delay is zero and both cases are ready.
RetryWake ==
    /\ retry.pc = "wait"
    /\ ~ctxDone \/ (retry.cancelledAt = 0 /\ retry.delays[Len(retry.delays)] = 0)
    /\ retry' = [retry EXCEPT !.pc = "call", !.attempt = @ + 1]
    /\ last' = [op |-> "time.After"]
    /\ UNCHANGED <<retryRest, ctxDone>>

\* case <-ctx.Done(): return Wrap(ctx.Err(), ErrCodeTimeout, ...)
RetryCancelled ==
    /\ retry.pc = "wait"
    /\ ctxDone
    /\ retry' = RetryDone(retry, "TIMEOUT_ERROR", "context canceled")
    /\ last' = [op |-> "ctx.Done"]
    /\ UNCHANGED <<retryRest, ctxDone>>

NextRetry ==
    \/ \E maxAttempts \in 1..MaxAttemptsBound, baseDelay \in BaseDelays :
          RetryStart(maxAttempts, baseDelay)
    \/ \E err \in FnResults : RetryInvoke(err)
    \/ Cancel
    \/ RetryWake
    \/ RetryCancelled

SpecRetry == Init /\ [][NextRetry]_vars

\* C22: once fn has failed with a validation or not-found error, Retry
\* returns that error: it is the last thing fn returned, no delay follows
\* it, and when it came at the first attempt fn ran exactly once.
C22_NoRetryOfValidation ==
    retry.pc # "idle" =>
        \A i \in 1..Len(retry.results) :
            retry.results[i] \in {"VALIDATION_ERROR", "NOT_FOUND"} =>
                /\ i = Len(retry.results)
                /\ retry.pc = "done"
                /\ retry.returned = retry.results[i]
                /\ Len(retry.delays) = i - 1

\* Retry was called for several attempts, fn failed with NOT_FOUND at the
\* first, and Retry returned it.
C22_Witness ==
    /\ retry.pc = "done"
    /\ retry.maxAttempts > 1
    /\ retry.results = <<"NOT_FOUND">>
    /\ retry.returned = "NOT_FOUND"
    /\ retry.delays = << >>

\* C23 as claimed: with the context live, a Retry that has returned after fn
\* failed with a storage, capacity or timeout error has made maxAttempts
\* invocations, and no delay was longer than 30 s.
C23_RetriesTransientErrors ==
    /\ retry.pc # "idle" =>
           \A i \in 1..Len(retry.delays) : retry.delays[i] <= MaxDelay
    /\ (/\ retry.pc = "done"
        /\ ~ctxDone
        /\ retry.results[Len(retry.results)]
               \in {"STORAGE_ERROR", "CAPACITY_ERROR", "TIMEOUT_ERROR"})
           => Len(retry.results) = retry.maxAttempts

\* C24 as claimed: a Retry whose context was cancelled during a wait has
\* not invoked fn again and has returned a Cancelled error.
C24_CancelledWhileWaiting ==
    (retry.pc # "idle" /\ retry.cancelledAt > 0) =>
        /\ Len(retry.results) = retry.cancelledAt
        /\ retry.pc = "done" => retry.returned = "CANCELLED"

(***************************************************************************)
(* The performance monitor (internal/performance/monitor.go)               *)
(***************************************************************************)

\* What a step of the monitor keeps
monitorRest == <<now, ttlDefault, chunkSize, rpc, issued, limiter, sessions, chunks, sessionStats, putLog,
                 managerVars, cacheVars, breakerVars, retryVars>>

\* The pairs of StartRequest and EndRequest made
MaxRequests == 3

\* Lock() returns whoever holds the mutex
LockedAlways(holder) == TRUE

\* pm.mu.Lock() returns when nobody holds the mutex
Locked(holder) == holder = "free"

\* StartRequest with monitoring enabled: atomic.AddInt64(&pm.requestCount, 1)
StartRequest(t, operation) ==
    /\ reqs[t].pc = "idle"
    /\ finished.n + Cardinality({c \in Callers : reqs[c].pc # "idle"}) < MaxRequests
    /\ monitor' = [monitor EXCEPT !.requestCount = @ + 1]
    /\ reqs' = [reqs EXCEPT ![t] = [pc |-> "end", operation |-> operation,
                                    isError |-> FALSE, read |-> 0]]
    /\ last' = [op |-> "StartRequest", caller |-> t]
    /\ UNCHANGED <<monitorRest, monMu, finished>>

\* EndRequest as far as the update of the session metrics: the atomic add
\* to errorCount
EndRequest(t, isError) ==
    /\ reqs[t].pc = "end"
    /\ monitor' = [monitor EXCEPT
                      !.errorCount = IF isError THEN @ + 1 ELSE @]
    /\ reqs' = [reqs EXCEPT ![t].pc = "session", ![t].isError = isError]
    /\ last' = [op |-> "EndRequest", caller |-> t]
    /\ UNCHANGED <<monitorRest, monMu, finished>>

\* updateSessionMetrics: Lock and the read of metrics.RequestCount
SessionMetricsLock(t) ==
    /\ reqs[t].pc = "session"
    /\ Locked(monMu)
    /\ monMu' = t
    /\ reqs' = [reqs EXCEPT ![t].pc = "sessionWrite",
                            ![t].read = monitor.sessionRequests]
    /\ last' = [op |-> "updateSessionMetrics", caller |-> t]
    /\ UNCHANGED <<monitorRest, monitor, finished>>

\* updateSessionMetrics: metrics.RequestCount++ written, and Unlock
SessionMetricsWrite(t) ==
    /\ reqs[t].pc = "sessionWrite"
    /\ monitor' = [monitor EXCEPT !.sessionRequests = reqs[t].read + 1]
    /\ monMu' = "free"
    /\ reqs' = [reqs EXCEPT ![t].pc = "operation"]
    /\ last' = [op |-> "updateSessionMetrics", caller |-> t]
    /\ UNCHANGED <<monitorRest, finished>>

\* updateOperationMetrics: Lock and the read of the operation's metrics
OperationMetricsLock(t) ==
    /\ reqs[t].pc = "operation"
    /\ Locked(monMu)
    /\ monMu' = t
    /\ reqs' = [reqs EXCEPT
                   ![t].pc = "operationWrite",
                   ![t].read = monitor.operationMetrics[reqs[t].operation]]
    /\ last' = [op |-> "updateOperationMetrics", caller |-> t]
    /\ UNCHANGED <<monitorRest, monitor, finished>>

\* updateOperationMetrics: TotalRequests++ and TotalErrors++ written, Unlock,
\* and EndRequest returns.
OperationMetricsWrite(t) ==
    LET r == reqs[t]
    IN  /\ r.pc = "operationWrite"
        /\ monitor' = [monitor EXCEPT
                          !.operationMetrics[r.operation] =
                              [TotalRequests |-> r.read.TotalRequests + 1,
                               TotalErrors |-> r.read.TotalErrors
                                                 + IF r.isError THEN 1 ELSE 0]]
        /\ monMu' = "free"
        /\ reqs' = [reqs EXCEPT ![t].pc = "idle"]
        /\ finished' = [n |-> finished.n + 1,
                        errors |-> finished.errors + IF r.isError THEN 1 ELSE 0]
        /\ last' = [op |-> "EndRequest", caller |-> t]
        /\ UNCHANGED monitorRest

NextMonitor ==
    \/ \E t \in Callers, operation \in Operations : StartRequest(t, operation)
    \/ \E t \in Callers, isError \in BOOLEAN : EndRequest(t, isError)
    \/ \E t \in Callers : SessionMetricsLock(t)
    \/ \E t \in Callers : SessionMetricsWrite(t)
    \/ \E t \in Callers : OperationMetricsLock(t)
    \/ \E t \in Callers : OperationMetricsWrite(t)

SpecMonitor == Init /\ [][NextMonitor]_vars

\* The sum of f over the operations in S
RECURSIVE SumOver(_, _)
SumOver(S, f) ==
    IF S = {} THEN 0
    ELSE LET o == CHOOSE x \in S : TRUE IN f[o] + SumOver(S \ {o}, f)

====
